---- MODULE Spec2Model ----
(***************************************************************************)
(* Verification model of the Georgia news bot (media-ge-tw-bot): the       *)
(* sentence-boundary truncators, the tweet composer, the posted-articles   *)
(* store and the publish coordinator of the script variants under src/.    *)
(*                                                                         *)
(* Text is a sequence of one-character strings.  The module is ASCII, so   *)
(* the Japanese punctuation of the source is written with stand-ins:       *)
(*   "J" = full-width period,  "Q" = full-width question mark,             *)
(*   "E" = full-width exclamation mark,  "," = the Japanese comma,         *)
(*   "." "?" "!" " " are themselves, "a" "b" are ordinary characters.      *)
(***************************************************************************)
EXTENDS Integers, Sequences, FiniteSets, TLC

VARIABLES
    t_pc,        \* truncator harness: "input" before the call, "returned" after it
    t_fn,        \* which truncator was called
    t_text,      \* its text argument
    t_max,       \* its max_length argument
    t_res,       \* the text it returned
    s_pc,        \* store harness: "file", "loaded", "gated", "classified", "recorded", "raised"
    s_variant,   \* whose store functions run: "final", "strict" or "hourly"
    s_file,      \* POSTED_ARTICLES_FILE
    s_file0,     \* history: the file before load_posted_articles ran
    s_temp,      \* posted_articles_temp.json of the hourly script
    s_record,    \* the dict load_posted_articles returned, as the later steps change it
    s_now,       \* time.time(), in hours
    s_article,   \* the candidate handed to is_similar_to_posted
    s_body,      \* what get_article_content returned to is_similar_to_posted
    s_dup,       \* what is_similar_to_posted returned
    s_urls,      \* history: the URLs update_posted_data appended, in order
    s_hashes,    \* history: the content hashes update_posted_data appended, in order
    p_pc,        \* publisher harness: "call" inside post_to_twitter, "returned" after it
    p_variant,   \* whose post_to_twitter runs: "improved" or "openrouter"
    p_log,       \* history: what each requests.post of the call met, in order
    p_result,    \* what post_to_twitter returned
    c_pc,        \* composer harness: "input" before main composes the tweet, "composed" after
    c_fn,        \* whose main composes: "bot", "final", "improved" or "fixed"
    c_summary,   \* what generate_summary returned
    c_url,       \* selected_article['url']
    c_res,       \* tweet_text as main hands it to post_to_twitter
    k_pc,        \* selection harness: position of main of simple, openrouter, bot or hourly
    k_variant,   \* whose main runs: "simple", "openrouter", "bot" or "hourly"
    k_outcome,   \* how the run of the harness ended
    k_runs,      \* number of runs started so far
    k_now,       \* time.time(), in hours
    k_file,      \* POSTED_ARTICLES_FILE of the script
    k_temp,      \* posted_articles_temp.json of the hourly script
    k_record,    \* posted_data of main
    k_articles,  \* what get_articles returned
    k_new,       \* new_articles
    k_selected,  \* selected_article
    k_branch,    \* history: the statement of main that assigned selected_article
    u_pc,        \* summary harness: "fetch", "summarize", "compose" or "post"
    u_variant,   \* whose main runs: "final", "improved" or "strict"
    u_title,     \* selected_article['title']
    u_body,      \* content: what get_article_content returned
    u_answer,    \* history: what the request to the summarizer met
    u_summary,   \* summary as the summarizing function returned it
    u_tweet,     \* tweet_text as main hands it to post_to_twitter
    variant,     \* which script runs: "improved" or "final"
    scope,       \* what the environment is explored for: "runs", "texts" or "again"
    clock,       \* time.time(), in hours
    runs,        \* number of runs started so far
    disk,        \* POSTED_ARTICLES_FILE: missing, corrupt or holding a record
    published,   \* history: the URLs the Publisher has accepted
    pc,          \* position of the coordinator (main) in the current run
    outcome,     \* how the run ended
    posted_data, \* the record main holds in memory
    articles,    \* the candidates get_articles returned
    idx,         \* position of the selection loop in articles
    fetched,     \* history: what get_article_content last returned to the selection loop
    selected_article,
    content,     \* body fetched for the selected article, or None
    summary,     \* main's summary variable
    tweet_text,  \* the text of the latest submission being prepared or sent
    attempt,     \* retry number of the duplicate-rejection loop (0 = original)
    post_result, \* what the latest post_to_twitter call returned
    disk0,       \* history: the file as it was when the run started
    prev,        \* history: the run before this one, if it selected a candidate and had no Success
    depth,       \* nesting of create_unique_tweet calls within the current retry
    loaded,      \* history: the record load_posted_articles returned
    repeated,    \* history: the latest modified tweet equals the submission before it
    n_post,      \* history: post_to_twitter calls of this run
    n_success,   \* history: Success answers of this run
    n_dup,       \* history: DuplicateRejected answers of this run
    n_commit,    \* history: update_posted_data calls of this run
    stamp,       \* history: the last_post_time the latest update_posted_data stored
    calls        \* history: the fetching and summarizing functions called in this run

\* ------------------------------------------------------------------------
\* Bounds of the model
\* ------------------------------------------------------------------------

\* longest text handed to a truncator
MaxLen == 4

\* largest truncation budget (max_length) handed to a truncator
MaxBudget == 3

\* a budget that the 70% tests of ensure_complete_sentences can pass
PhraseBudget == 10

\* number of runs of the script
MaxRuns == 3

\* capacity of the posted and content_hashes lists; the scripts set 50,
\* the model a capacity that the runs above can fill and overflow
ARTICLES_TO_TRACK == 2

\* length of an article URL
UrlLen == 45

\* length of an article title (get_articles keeps titles of 10 or more)
TitleLen == 12

\* most entries of the posted list of a store file found on disk
MaxStored == 3

\* length of a short article URL
ShortUrlLen == 35

\* length of an article URL whose slug is a percent-encoded Japanese title
LongUrlLen == 290

\* nested create_unique_tweet calls the interpreter allows before it raises
\* RecursionError (sys.getrecursionlimit() is 1000 frames)
RecursionLimit == 3

\* ------------------------------------------------------------------------
\* Characters
\* ------------------------------------------------------------------------

JpPeriod == "J"

EnPeriod == "."

FwQuestion == "Q"

FwExclaim == "E"

HwQuestion == "?"

HwExclaim == "!"

JpComma == ","

Space == " "

\* the characters texts are drawn from
Alphabet == {"a", JpPeriod, EnPeriod, FwQuestion, FwExclaim, HwQuestion, HwExclaim, JpComma, Space}

\* the six marks of improved/final: endswith checks and rfind list
TerminalMarks == {JpPeriod, EnPeriod, FwQuestion, FwExclaim, HwQuestion, HwExclaim}

\* the four marks ensure_complete_sentences (fixed) looks for
FixedMarks == {JpPeriod, EnPeriod, FwQuestion, FwExclaim}

\* ------------------------------------------------------------------------
\* Python string primitives
\* ------------------------------------------------------------------------

Min(a, b) == IF a < b THEN a ELSE b

Max(a, b) == IF a > b THEN a ELSE b

\* text[:n], n may be negative
Slice(text, n) ==
    IF n >= 0 THEN SubSeq(text, 1, Min(n, Len(text)))
    ELSE SubSeq(text, 1, Max(Len(text) + n, 0))

\* text.endswith(c) for some c in marks
EndsWithAny(text, marks) == Len(text) > 0 /\ text[Len(text)] \in marks

\* text.endswith(suffix)
EndsWith(text, suffix) ==
    /\ Len(suffix) <= Len(text)
    /\ SubSeq(text, Len(text) - Len(suffix) + 1, Len(text)) = suffix

\* max over the marks of text.rfind(mark): 0-based index, -1 when none occurs
RFindAny(text, marks) ==
    LET hits == {i \in 1..Len(text) : text[i] \in marks}
    IN  IF hits = {} THEN -1 ELSE (CHOOSE i \in hits : \A j \in hits : j <= i) - 1

\* text.lstrip(): drop the leading whitespace
LStrip(text) ==
    LET solid == {i \in 1..Len(text) : text[i] # Space}
    IN  IF solid = {} THEN << >>
        ELSE SubSeq(text, CHOOSE i \in solid : \A j \in solid : i <= j, Len(text))

\* text.rstrip(): drop the trailing whitespace
RStrip(text) ==
    LET solid == {i \in 1..Len(text) : text[i] # Space}
    IN  IF solid = {} THEN << >>
        ELSE SubSeq(text, 1, CHOOSE i \in solid : \A j \in solid : j <= i)

\* text.strip()
Strip(text) == RStrip(LStrip(text))

\* text.split(): the whitespace-delimited words, none empty
Split(text) ==
    LET starts == {i \in 1..Len(text) :
                     text[i] # Space /\ (i = 1 \/ text[i - 1] = Space)}
        StartOf(k) == CHOOSE i \in starts : Cardinality({j \in starts : j < i}) = k - 1
        EndOf(i) == CHOOSE e \in i..Len(text) :
                      /\ \A j \in i..e : text[j] # Space
                      /\ (e = Len(text) \/ text[e + 1] = Space)
    IN  [k \in 1..Cardinality(starts) |-> SubSeq(text, StartOf(k), EndOf(StartOf(k)))]

\* ' '.join(words)
RECURSIVE JoinSpace(_)
JoinSpace(words) ==
    IF words = << >> THEN << >>
    ELSE IF Len(words) = 1 THEN words[1]
    ELSE words[1] \o <<Space>> \o JoinSpace(Tail(words))

\* words[:-1]
DropLast(s) == IF s = << >> THEN << >> ELSE SubSeq(s, 1, Len(s) - 1)

\* ------------------------------------------------------------------------
\* Sentence boundary truncators
\* ------------------------------------------------------------------------

\* ensure_complete_sentences cutting at the last complete word however short
\* the text before it
ensure_complete_sentences_any_word(text, max_length) ==
    IF text = << >> THEN << >>
    ELSE IF Len(text) <= max_length
    THEN (IF EndsWithAny(text, FixedMarks) THEN text ELSE Append(text, JpPeriod))
    ELSE LET truncated == Slice(text, max_length)
             last_end == RFindAny(truncated, FixedMarks)
             last_comma == RFindAny(truncated, {JpComma})
             complete_text == JoinSpace(DropLast(Split(truncated)))
         IN  IF last_end > 0 THEN Slice(text, last_end + 1)
             ELSE IF 10 * last_comma > 7 * max_length
                  THEN Append(Slice(text, last_comma + 1), JpPeriod)
             ELSE IF complete_text # << >> THEN Append(complete_text, JpPeriod)
             ELSE Append(truncated, JpPeriod)

\* georgia_news_fixed.py: ensure_complete_sentences(text, max_length)
ensure_complete_sentences(text, max_length) ==
    IF text = << >> THEN << >>
    ELSE IF Len(text) <= max_length
    THEN (IF EndsWithAny(text, FixedMarks) THEN text ELSE Append(text, JpPeriod))
    ELSE LET truncated == Slice(text, max_length)
             last_end == RFindAny(truncated, FixedMarks)
             last_comma == RFindAny(truncated, {JpComma})
             words == Split(Slice(text, max_length))
             complete_text == JoinSpace(DropLast(words))
         IN  IF last_end > 0 THEN Slice(text, last_end + 1)
             ELSE IF 10 * last_comma > 7 * max_length
                  THEN Append(Slice(text, last_comma + 1), JpPeriod)
             ELSE IF words # << >> /\ 10 * Len(complete_text) > 7 * max_length
                  THEN Append(complete_text, JpPeriod)
             ELSE Append(truncated, JpPeriod)

\* a truncator that closes a cut text with an ellipsis
truncate_final_ellipsis(text, max_length) ==
    IF Len(text) <= max_length THEN text
    ELSE Slice(text, max_length) \o <<EnPeriod, EnPeriod, EnPeriod>>

\* georgia_news_final.py: truncate_to_complete_sentence(text, max_length)
truncate_final(text, max_length) ==
    IF Len(text) <= max_length THEN text
    ELSE LET truncated == Slice(text, max_length)
             last_end == RFindAny(truncated, TerminalMarks)
         IN  IF last_end > 0 THEN Slice(text, last_end + 1)
             ELSE Append(Strip(truncated), JpPeriod)

\* the sentences loop of the improved truncator: text is cut after every
\* mark, the k-th sentence ends at the k-th mark; what follows the last mark
\* is no sentence
Sentences(text) ==
    LET ends == {i \in 1..Len(text) : text[i] \in TerminalMarks}
        EndOf(k) == CHOOSE i \in ends : Cardinality({j \in ends : j < i}) = k - 1
    IN  [k \in 1..Cardinality(ends) |->
           SubSeq(text, IF k = 1 THEN 1 ELSE EndOf(k - 1) + 1, EndOf(k))]

\* "use as many as will fit": stops at the first sentence that does not fit
RECURSIVE FitSentences(_, _, _)
FitSentences(sentences, result, max_length) ==
    IF sentences = << >> THEN result
    ELSE IF Len(result) + Len(sentences[1]) <= max_length
         THEN FitSentences(Tail(sentences), result \o sentences[1], max_length)
         ELSE result

\* georgia_news_improved.py: truncate_to_complete_sentence(text, max_length)
truncate_to_complete_sentence(text, max_length) ==
    IF Len(text) <= max_length THEN text
    ELSE LET truncated == Slice(text, max_length)
             last_end == RFindAny(truncated, TerminalMarks)
             sentences == Sentences(text)
             result == FitSentences(sentences, << >>, max_length)
         IN  IF last_end > 0 THEN Slice(text, last_end + 1)
             ELSE IF sentences # << >> /\ result # << >> THEN result
             ELSE Append(Strip(truncated), JpPeriod)

\* the variables of the truncator harness, and their value when it is not used
tvars == <<t_pc, t_fn, t_text, t_max, t_res>>

TruncIdle ==
    /\ t_pc = "off"
    /\ t_fn = "none"
    /\ t_text = << >>
    /\ t_max = 0
    /\ t_res = << >>

StoreIdle ==
    /\ s_pc = "off"
    /\ s_variant = "final"
    /\ s_file = [state |-> "missing"]
    /\ s_file0 = [state |-> "missing"]
    /\ s_temp = [state |-> "missing"]
    /\ s_record = [raised |-> FALSE]
    /\ s_now = 0
    /\ s_article = 0
    /\ s_body = << >>
    /\ s_dup = FALSE
    /\ s_urls = << >>
    /\ s_hashes = << >>

svars == <<s_pc, s_variant, s_file, s_file0, s_temp, s_record, s_now, s_article, s_body,
           s_dup, s_urls, s_hashes>>

pvars == <<p_pc, p_variant, p_log, p_result>>

PostIdle ==
    /\ p_pc = "off"
    /\ p_variant = "improved"
    /\ p_log = << >>
    /\ p_result = "none"

cvars == <<c_pc, c_fn, c_summary, c_url, c_res>>

ComposeIdle ==
    /\ c_pc = "off"
    /\ c_fn = "none"
    /\ c_summary = << >>
    /\ c_url = << >>
    /\ c_res = << >>

kvars == <<k_pc, k_variant, k_outcome, k_runs, k_now, k_file, k_temp, k_record, k_articles,
           k_new, k_selected, k_branch>>

PickIdle ==
    /\ k_pc = "off"
    /\ k_variant = "simple"
    /\ k_outcome = "none"
    /\ k_runs = 0
    /\ k_now = 0
    /\ k_file = [state |-> "missing"]
    /\ k_temp = [state |-> "missing"]
    /\ k_record = [posted |-> << >>]
    /\ k_articles = << >>
    /\ k_new = << >>
    /\ k_selected = [url |-> << >>]
    /\ k_branch = "none"

uvars == <<u_pc, u_variant, u_title, u_body, u_answer, u_summary, u_tweet>>

SummaryIdle ==
    /\ u_pc = "off"
    /\ u_variant = "final"
    /\ u_title = << >>
    /\ u_body = << >>
    /\ u_answer = <<"none">>
    /\ u_summary = << >>
    /\ u_tweet = << >>

\* the variables of the harnesses
hvars == <<tvars, svars, pvars, cvars, kvars, uvars>>

\* ------------------------------------------------------------------------
\* Program constants
\* ------------------------------------------------------------------------

MAX_TWEET_LENGTH == 280

URL_BUFFER == 30

MINIMUM_HOURS_BETWEEN_POSTS == 3

TWITTER_URL_LENGTH == 23

HOURS_BETWEEN_POSTS == 1

\* ------------------------------------------------------------------------
\* Articles, bodies, summaries
\* ------------------------------------------------------------------------

\* None, and the empty text: "if not content" takes both the same way
None == << >>

Newline == "N"

\* the character c, n times
Rep(c, n) == [i \in 1..n |-> c]

\* three article URLs of the site, all of the same length
Url(i) == Rep("u", UrlLen - 1) \o <<ToString(i)>>

URLs == {Url(1), Url(2), Url(3)}

\* link texts: none ends with a sentence mark, as headlines do not
Title(i) == Rep("t", TitleLen - 1) \o <<ToString(i)>>

Article(i) == [title |-> Title(i), url |-> Url(i)]

\* the page body behind each URL; article 3 republishes the story of article 1
Body(url) ==
    IF url = Url(2) THEN Rep("b", 59) \o <<"2">>
    ELSE Rep("b", 59) \o <<"1">>

\* what one get_article_content(url) call can return
ContentResults(url) == {None, Body(url)}

\* what get_articles can return in a run
CandidateLists ==
    { << >>,
      <<Article(1), Article(2), Article(3)>>,
      <<Article(3), Article(1)>>,
      <<Article(2)>> }

\* get_content_hash: md5 hexdigest, taken as collision free
get_content_hash(text) == <<"md5", text>>

\* the variations of create_unique_tweet: six phrases ending with the
\* full-width period, of 9, 8, 6, 6, 9 and 12 characters
VariationLen(i) == CASE i = 1 -> 9 [] i = 2 -> 8 [] i = 3 -> 6 [] i = 4 -> 6 [] i = 5 -> 9 [] i = 6 -> 12

Variation(i) == <<"v", ToString(i)>> \o Rep("x", VariationLen(i) - 3) \o <<JpPeriod>>

variations == {Variation(i) : i \in 1..6}

\* the summarizer's answer: <<"ok", text>> with the text as it is once
\* remove_prefixes has run (generate_summary's summary variable), or
\* <<"failed">> when there is no API key or every model failed
LlmSummaries ==
    { <<"failed">>,
      <<"ok", Rep("a", 40) \o <<JpPeriod>> >>,
      <<"ok", Rep("a", 40)>>,
      <<"ok", Rep("a", 150) \o <<JpPeriod>> \o Rep("a", 149)>>,
      <<"ok", Rep("a", 20) \o <<JpPeriod, Space>> \o Variation(3)>> }

\* the title fallback of generate_summary
TitleSummary(title) ==
    IF EndsWithAny(title, {JpPeriod, EnPeriod}) THEN title ELSE Append(title, JpPeriod)

\* generate_summary(title, content); llm is the summarizer's answer.  The
\* improved and final scripts differ in the truncator they call.
generate_summary(v, title, llm) ==
    IF llm[1] = "failed" THEN TitleSummary(title)
    ELSE LET max_length == MAX_TWEET_LENGTH - URL_BUFFER
             ended == IF EndsWithAny(llm[2], TerminalMarks) THEN llm[2]
                      ELSE Append(llm[2], JpPeriod)
         IN  IF Len(ended) > max_length
             THEN (IF v = "final" THEN truncate_final(ended, max_length)
                   ELSE truncate_to_complete_sentence(ended, max_length))
             ELSE ended

\* ------------------------------------------------------------------------
\* Post composer
\* ------------------------------------------------------------------------

\* f"{summary}\n\n{url}"
Tweet(s, url) == s \o <<Newline, Newline>> \o url

\* tweet_text.split('\n\n')[0]
SummaryPart(text) ==
    LET seps == {i \in 1..Len(text) - 1 : text[i] = Newline /\ text[i + 1] = Newline}
    IN  IF seps = {} THEN text
        ELSE SubSeq(text, 1, (CHOOSE i \in seps : \A j \in seps : i <= j) - 1)

\* the summary with a full-width period added when it ends with none of the six marks
Terminated(s) == IF EndsWithAny(s, TerminalMarks) THEN s ELSE Append(s, JpPeriod)

\* create_unique_tweet(summary, url, 0)
create_unique_tweet_first(s, url) ==
    LET sm == Terminated(s)
        tweet == Tweet(sm, url)
    IN  IF Len(tweet) <= MAX_TWEET_LENGTH THEN tweet
        ELSE Tweet(truncate_to_complete_sentence(sm, MAX_TWEET_LENGTH - Len(url) - 5), url)

\* create_unique_tweet(summary, url, attempt) for attempt >= 1, when
\* random.choice picked variation and the summary does not end with it
create_unique_tweet(s, url, variation) ==
    LET sm == Terminated(s)
        max_length == MAX_TWEET_LENGTH - Len(variation) - Len(url) - 5
        truncated_summary == truncate_to_complete_sentence(sm, max_length)
        last_end == RFindAny(truncated_summary, TerminalMarks)
        fixed_summary ==
            IF EndsWithAny(truncated_summary, TerminalMarks) THEN truncated_summary
            ELSE IF last_end > 0 THEN Slice(truncated_summary, last_end + 1)
            ELSE Append(truncated_summary, JpPeriod)
    IN  fixed_summary \o <<Space>> \o variation \o <<Newline, Newline>> \o url

\* time.strftime("%H:%M")
TimeString == <<"h", "h", ":", "m", "m">>

\* the retry summary of the final script
final_new_summary(title, body, url) ==
    LET head == Rep("g", 9) \o <<"(">> \o TimeString \o <<")", ":", Space>> \o title
        new_summary == IF body # None THEN head \o Rep("k", 8) \o <<JpPeriod>> ELSE head
        max_summary_length == MAX_TWEET_LENGTH - Len(url) - 5
    IN  IF Len(new_summary) > max_summary_length
        THEN truncate_final(new_summary, max_summary_length)
        ELSE new_summary

\* ------------------------------------------------------------------------
\* Posted-articles store
\* ------------------------------------------------------------------------

EmptyRecord == [posted |-> << >>, content_hashes |-> << >>, last_post_time |-> 0]

\* POSTED_ARTICLES_FILE: absent, not parseable as JSON, or holding a record
MissingFile == [state |-> "missing", data |-> EmptyRecord]

CorruptFile == [state |-> "corrupt", data |-> EmptyRecord]

FileOf(data) == [state |-> "ok", data |-> data]

IsRecord(file) == file.state = "ok"

InList(x, list) == \E i \in 1..Len(list) : list[i] = x

\* a list that drops its newest entry to make room
PushBounded_drop_newest(list, x) ==
    Append(IF Len(list) >= ARTICLES_TO_TRACK THEN SubSeq(list, 1, Len(list) - 1) ELSE list, x)

\* the list after "if len(list) >= ARTICLES_TO_TRACK: list.pop(0)" and append
PushBounded(list, x) ==
    Append(IF Len(list) >= ARTICLES_TO_TRACK THEN Tail(list) ELSE list, x)

\* an update that stores a time running backwards
update_posted_data_backwards(article, data, body, now) ==
    [posted |-> PushBounded(data.posted, article.url),
     content_hashes |-> PushBounded(data.content_hashes,
                                    get_content_hash(IF body # None THEN body ELSE article.title)),
     last_post_time |-> 0 - now]

\* the in-memory effect of update_posted_data; body is what its own
\* get_article_content call returned
update_posted_data(article, data, body, now) ==
    LET text == IF body # None THEN body ELSE article.title
    IN  [posted |-> PushBounded(data.posted, article.url),
         content_hashes |-> PushBounded(data.content_hashes, get_content_hash(text)),
         last_post_time |-> now]

\* the file after save_posted_articles(data): written, left alone because
\* open() failed, or left truncated because the write failed
SaveResults(data, file) == {FileOf(data), file, CorruptFile}

\* a URL check that never matches
url_posted_never(article, data) == FALSE

\* "if url in posted_data['posted']: return True"
url_posted(article, data) == InList(article.url, data.posted)

\* is_similar_to_posted(article, posted_data); body is what its
\* get_article_content call returned
is_similar_to_posted(article, data, body) ==
    \/ url_posted(article, data)
    \/ InList(get_content_hash(IF body # None THEN body ELSE article.title), data.content_hashes)

\* ------------------------------------------------------------------------
\* The store functions on any persisted record: final, strict and hourly
\* ------------------------------------------------------------------------

\* the keys of the persisted JSON object that the functions read
Fields(v) ==
    IF v = "strict" THEN {"posted", "content_hashes", "keywords", "last_post_time"}
    ELSE IF v = "final" THEN {"posted", "content_hashes", "last_post_time"}
    ELSE {"posted"}

\* the record with the keyword map of the strict script; keywords is the
\* set of <<keyword, time of last use>> pairs of the dict
FreshRecord == [posted |-> << >>, content_hashes |-> << >>, keywords |-> {},
                last_post_time |-> 0]

\* a dict in memory: the values of its keys, the keys it lacks, and whether
\* an exception escaped the function that was working on it
Dict(data, lacks) == [raised |-> FALSE, data |-> data, lacks |-> lacks]

Raised(d) == [d EXCEPT !.raised = TRUE]

\* a store file: absent, not parseable, or a JSON object lacking some keys
NoFile == [state |-> "missing", data |-> FreshRecord, lacks |-> {}]

BadFile == [state |-> "corrupt", data |-> FreshRecord, lacks |-> {}]

JsonFile(data, lacks) == [state |-> "ok", data |-> data, lacks |-> lacks]

\* candidates whose titles share words; "n" stands for a one-character
\* particle and "kr" for a two-character one
STitle(i) ==
    CASE i = 1 -> <<"a", "a", Space, "n", Space, "t", "1">>
      [] i = 2 -> <<"a", "a", Space, "k", "r", Space, "t", "2">>
      [] i = 3 -> <<"b", "b", Space, "t", "3">>
      [] OTHER -> <<"c", Space, "t", ToString(i)>>

SArticle(i) == [title |-> STitle(i), url |-> Url(i)]

\* common_words of get_keywords: the particles of one character, which the
\* length test drops anyway, and those of two
common_words == {<<"n">>, <<"k", "r">>, <<"y", "r">>, <<"n", "d">>, <<"m", "d">>}

Substantial(word) == Len(word) > 1 /\ word \notin common_words

\* get_keywords(title)
get_keywords(title) == SelectSeq(Split(title), Substantial)

\* load_posted_articles without its except clause
load_unguarded(v, file, temp) ==
    IF file.state = "ok" THEN Dict(file.data, file.lacks)
    ELSE IF file.state = "corrupt" THEN Raised(Dict(FreshRecord, {}))
    ELSE Dict(FreshRecord, {})

\* the dict load_posted_articles returns.  final and strict read
\* data['posted'] for the log line inside the try block; hourly returns what
\* json.load gave and falls back on the temporary copy when there is no
\* main file.
load_posted_articles(v, file, temp) ==
    IF v = "hourly"
    THEN IF file.state = "ok" THEN Dict(file.data, file.lacks)
         ELSE IF file.state = "missing" /\ temp.state = "ok" THEN Dict(temp.data, temp.lacks)
         ELSE Dict(FreshRecord, {})
    ELSE IF file.state = "ok" /\ "posted" \notin file.lacks THEN Dict(file.data, file.lacks)
         ELSE Dict(FreshRecord, {})

\* the file after load_posted_articles: final and strict write the new
\* record when there was no file
FileAfterLoad(v, file) ==
    IF v # "hourly" /\ file.state = "missing"
    THEN {JsonFile(FreshRecord, {}), file, BadFile}
    ELSE {file}

\* posted_data.get('last_post_time', 0)
last_post_time_of(d) == IF "last_post_time" \in d.lacks THEN 0 ELSE d.data.last_post_time

\* the keyword test of the strict script with "<=" for "<"
keyword_recent_inclusive(keywords, title, now) ==
    \E i \in 1..Len(get_keywords(title)) :
        \E p \in keywords : p[1] = get_keywords(title)[i] /\ now - p[2] <= 24

\* "for keyword in article_keywords: if keyword in posted_data['keywords']
\*  ... if time.time() - last_used < 24 * 60 * 60: return True"
keyword_recent(keywords, title, now) ==
    \E i \in 1..Len(get_keywords(title)) :
        \E p \in keywords : p[1] = get_keywords(title)[i] /\ now - p[2] < 24

\* is_similar_to_posted(article, posted_data) of final and strict on the
\* dict d: <<"raise">> for a KeyError, else <<"return", value>>
is_similar(v, article, d, body, now) ==
    LET content_hash == get_content_hash(IF body # None THEN body ELSE article.title)
    IN  IF "posted" \in d.lacks THEN <<"raise">>
        ELSE IF InList(article.url, d.data.posted) THEN <<"return", TRUE>>
        ELSE IF "content_hashes" \in d.lacks THEN <<"raise">>
        ELSE IF InList(content_hash, d.data.content_hashes) THEN <<"return", TRUE>>
        ELSE IF v # "strict" \/ get_keywords(article.title) = << >> THEN <<"return", FALSE>>
        ELSE IF "keywords" \in d.lacks THEN <<"raise">>
        ELSE <<"return", keyword_recent(d.data.keywords, article.title, now)>>

\* a keyword map that is started afresh with the keywords of the new title
SetKeywords_only_new(keywords, words, now) == {<<words[i], now>> : i \in 1..Len(words)}

\* posted_data['keywords'][keyword] = current_time for each keyword
SetKeywords(keywords, words, now) ==
    {p \in keywords : ~InList(p[1], words)} \cup {<<words[i], now>> : i \in 1..Len(words)}

\* an update that stores a content hash only when the body was fetched
record_published_body_only(v, article, d, body, now) ==
    Dict([posted |-> PushBounded(d.data.posted, article.url),
          content_hashes |-> IF body # None
                             THEN PushBounded(d.data.content_hashes, get_content_hash(body))
                             ELSE d.data.content_hashes,
          keywords |-> d.data.keywords,
          last_post_time |-> now],
         d.lacks \ {"last_post_time"})

\* update_posted_data(article, posted_data) of final and strict on the dict
\* d, up to the save: the dict after it, raised when a KeyError escaped
record_published(v, article, d, body, now) ==
    LET content_hash == get_content_hash(IF body # None THEN body ELSE article.title)
        words == get_keywords(article.title)
        d1 == [d EXCEPT !.data.posted = PushBounded(d.data.posted, article.url)]
        d2 == [d1 EXCEPT !.data.content_hashes = PushBounded(d.data.content_hashes, content_hash)]
    IN  IF "posted" \in d.lacks THEN Raised(d)
        ELSE IF "content_hashes" \in d.lacks THEN Raised(d1)
        ELSE IF v = "strict" /\ words # << >> /\ "keywords" \in d.lacks THEN Raised(d2)
        ELSE Dict([posted |-> PushBounded(d.data.posted, article.url),
                   content_hashes |-> PushBounded(d.data.content_hashes, content_hash),
                   keywords |-> IF v = "strict" THEN SetKeywords(d.data.keywords, words, now)
                                ELSE d.data.keywords,
                   last_post_time |-> now],
                  d.lacks \ {"last_post_time"})

\* ------------------------------------------------------------------------
\* Publish coordinator: main() of the improved and final scripts
\* ------------------------------------------------------------------------

Variants == {"improved", "final"}

\* one retry more than the scripts make
RetryCap_one_more(v) == IF v = "improved" THEN 4 ELSE 2

\* retries after a duplicate rejection: "for attempt in range(1, 4)" in
\* improved, a single modified tweet in final
RetryCap(v) == IF v = "improved" THEN 3 ELSE 1

\* what post_to_twitter returns: (True, None), (False, "duplicate"),
\* (False, None) for any other status, (False, "error")
PostResults == {"success", "duplicate", "rejected", "error"}

NoArticle == [title |-> << >>, url |-> << >>]

\* no run to remember
NoPrev == [valid |-> FALSE, selected |-> NoArticle, fetched |-> << >>, loaded |-> EmptyRecord]

\* The environment is explored in three scopes.  "runs": a sequence of runs
\* against one store, the summarizer unavailable and random.choice drawing
\* from the first two variations.  "texts": one run, with every summarizer
\* answer and every variation.  "again": as "runs", and each run keeps what
\* the run before it loaded, selected and fetched, to be compared with.
LlmChoices == IF scope = "texts" THEN LlmSummaries ELSE {<<"failed">>}

VariationChoices == IF scope = "texts" THEN variations ELSE {Variation(1), Variation(2)}

RunLimit == IF scope = "texts" THEN 1 ELSE MaxRuns

\* a value kept for the comparison of consecutive runs
Kept(value, none) == IF scope = "again" THEN value ELSE none

cfgvars == <<variant, scope>>

timevars == <<clock, runs, disk0, prev>>

selvars == <<articles, idx, selected_article, fetched>>

textvars == <<content, summary, tweet_text, attempt, repeated, depth>>

postvars == <<post_result, n_post, n_success, n_dup, published>>

storevars == <<disk, posted_data, loaded, n_commit, stamp>>

rvars == <<cfgvars, timevars, selvars, textvars, postvars, storevars, pc, outcome, calls>>

vars == <<tvars, svars, pvars, cvars, kvars, uvars, rvars>>

RunInit ==
    /\ variant \in Variants
    /\ clock = MINIMUM_HOURS_BETWEEN_POSTS
    /\ runs = 0
    /\ disk = MissingFile
    /\ published = {}
    /\ pc = "idle"
    /\ outcome = "running"
    /\ posted_data = EmptyRecord
    /\ articles = << >>
    /\ idx = 0
    /\ fetched = None
    /\ prev = NoPrev
    /\ depth = 0
    /\ selected_article = NoArticle
    /\ content = None
    /\ summary = << >>
    /\ tweet_text = << >>
    /\ attempt = 0
    /\ post_result = "none"
    /\ disk0 = disk
    /\ loaded = EmptyRecord
    /\ repeated = FALSE
    /\ n_post = 0
    /\ n_success = 0
    /\ n_dup = 0
    /\ n_commit = 0
    /\ stamp = 0
    /\ calls = {}

\* the run ends: main returns
Finish(how) ==
    /\ pc' = "done"
    /\ outcome' = how

Continue(at) ==
    /\ pc' = at
    /\ outcome' = outcome

\* a main that loads the store before it looks at the environment variables
StartRun_load_first ==
    /\ pc \in {"idle", "done"}
    /\ runs < RunLimit
    /\ runs' = runs + 1
    /\ \E tick \in {1, MINIMUM_HOURS_BETWEEN_POSTS} : clock' = clock + tick
    /\ disk0' = disk
    /\ prev' = NoPrev
    /\ fetched' = None
    /\ depth' = 0
    /\ posted_data' = IF IsRecord(disk) THEN disk.data ELSE EmptyRecord
    /\ loaded' = posted_data'
    /\ disk' \in (IF disk = MissingFile THEN SaveResults(EmptyRecord, disk) ELSE {disk})
    /\ articles' = << >>
    /\ idx' = 0
    /\ selected_article' = NoArticle
    /\ content' = None
    /\ summary' = << >>
    /\ tweet_text' = << >>
    /\ attempt' = 0
    /\ repeated' = FALSE
    /\ post_result' = "none"
    /\ n_post' = 0
    /\ n_success' = 0
    /\ n_dup' = 0
    /\ n_commit' = 0
    /\ calls' = {}
    /\ \E missing_vars \in BOOLEAN :
         IF missing_vars THEN Finish("abort") ELSE pc' = "rate_check" /\ outcome' = "running"
    /\ UNCHANGED <<cfgvars, stamp, published, hvars>>

\* The scheduler starts the script, one or three hours after the previous
\* start; main checks the required environment variables.
StartRun ==
    /\ pc \in {"idle", "done"}
    /\ runs < RunLimit
    /\ runs' = runs + 1
    /\ \E tick \in {1, MINIMUM_HOURS_BETWEEN_POSTS} : clock' = clock + tick
    /\ disk0' = disk
    /\ prev' = IF selected_article # NoArticle /\ n_success = 0
               THEN Kept([valid |-> TRUE, selected |-> selected_article, fetched |-> fetched,
                          loaded |-> loaded], NoPrev)
               ELSE NoPrev
    /\ fetched' = None
    /\ depth' = 0
    /\ posted_data' = EmptyRecord
    /\ loaded' = EmptyRecord
    /\ articles' = << >>
    /\ idx' = 0
    /\ selected_article' = NoArticle
    /\ content' = None
    /\ summary' = << >>
    /\ tweet_text' = << >>
    /\ attempt' = 0
    /\ repeated' = FALSE
    /\ post_result' = "none"
    /\ n_post' = 0
    /\ n_success' = 0
    /\ n_dup' = 0
    /\ n_commit' = 0
    /\ calls' = {}
    /\ \E missing_vars \in BOOLEAN :
         IF missing_vars THEN Finish("abort") ELSE pc' = "load" /\ outcome' = "running"
    /\ UNCHANGED <<cfgvars, disk, stamp, published, hvars>>

\* load_posted_articles
LoadPostedArticles ==
    /\ pc = "load"
    /\ \/ /\ IsRecord(disk)
          /\ posted_data' = disk.data
          /\ disk' = disk
       \/ /\ disk = CorruptFile
          /\ posted_data' = EmptyRecord
          /\ disk' = disk
       \/ /\ disk = MissingFile
          /\ posted_data' = EmptyRecord
          /\ disk' \in SaveResults(EmptyRecord, disk)
    /\ loaded' = posted_data'
    /\ Continue("rate_check")
    /\ UNCHANGED <<cfgvars, timevars, selvars, textvars, postvars, n_commit, stamp, calls, hvars>>

\* a gate that lets every run through
RateCheck_open ==
    /\ pc = "rate_check"
    /\ Continue("get_articles")
    /\ UNCHANGED <<cfgvars, timevars, selvars, textvars, postvars, storevars, calls, hvars>>

\* the rate gate of main
RateCheck ==
    /\ pc = "rate_check"
    /\ IF clock - posted_data.last_post_time < MINIMUM_HOURS_BETWEEN_POSTS
       THEN Finish("skip_rate")
       ELSE Continue("get_articles")
    /\ UNCHANGED <<cfgvars, timevars, selvars, textvars, postvars, storevars, calls, hvars>>

\* a coordinator without the "No articles found" return
GetArticles_no_return ==
    /\ pc = "get_articles"
    /\ \E list \in CandidateLists : articles' = list
    /\ Continue("select")
    /\ calls' = calls \cup {"get_articles"}
    /\ idx' = 1
    /\ UNCHANGED <<cfgvars, timevars, selected_article, fetched, textvars, postvars, storevars,
                   hvars>>

\* get_articles and the "No articles found" return
GetArticles ==
    /\ pc = "get_articles"
    /\ \E list \in CandidateLists :
         /\ articles' = list
         /\ IF list = << >> THEN Finish("no_articles") ELSE Continue("select")
    /\ calls' = calls \cup {"get_articles"}
    /\ idx' = 1
    /\ UNCHANGED <<cfgvars, timevars, selected_article, fetched, textvars, postvars, storevars,
                   hvars>>

\* a selection that takes any candidate whose URL is not in the posted list,
\* whatever its place in the list
SelectArticle_any ==
    /\ pc = "select"
    /\ \E i \in 1..Len(articles) :
         /\ ~url_posted(articles[i], posted_data)
         /\ idx' = i
         /\ selected_article' = articles[i]
    /\ fetched' = fetched
    /\ calls' = calls \cup {"get_article_content"}
    /\ Continue("compose")
    /\ UNCHANGED <<cfgvars, timevars, articles, textvars, postvars, storevars, hvars>>

\* one iteration of "for article in articles: if not is_similar_to_posted"
SelectArticle ==
    /\ pc = "select"
    /\ IF idx > Len(articles)
       THEN /\ Finish("no_candidate")
            /\ UNCHANGED <<selected_article, calls, idx, fetched>>
       ELSE LET article == articles[idx]
            IN  IF url_posted(article, posted_data)
                THEN /\ idx' = idx + 1
                     /\ UNCHANGED <<pc, outcome, selected_article, calls, fetched>>
                ELSE \E body \in ContentResults(article.url) :
                       /\ calls' = calls \cup {"get_article_content"}
                       /\ fetched' = Kept(body, None)
                       /\ IF is_similar_to_posted(article, posted_data, body)
                          THEN /\ idx' = idx + 1
                               /\ UNCHANGED <<pc, outcome, selected_article>>
                          ELSE /\ selected_article' = article
                               /\ Continue("compose")
                               /\ idx' = idx
    /\ UNCHANGED <<cfgvars, timevars, articles, textvars, postvars, storevars, hvars>>

\* a composition that leaves the summary as long as it is
ComposeImproved_uncut(s, url) == <<s, Tweet(Terminated(s), url)>>

\* the first tweet of the improved script: create_unique_tweet, the length
\* double-check and the sentence-ending check of main; <<summary, tweet_text>>
ComposeImproved(s, url) ==
    LET first == create_unique_tweet_first(s, url)
        s1 == IF Len(first) > MAX_TWEET_LENGTH
              THEN truncate_to_complete_sentence(s, MAX_TWEET_LENGTH - Len(url) - 5)
              ELSE s
        t1 == IF Len(first) > MAX_TWEET_LENGTH THEN Tweet(s1, url) ELSE first
        tweet_lines == SummaryPart(t1)
    IN  <<s1, IF EndsWithAny(tweet_lines, TerminalMarks) THEN t1
              ELSE Tweet(Append(tweet_lines, JpPeriod), url)>>

\* the first tweet of the final script; <<summary, tweet_text>>
ComposeFinal(s, url) ==
    IF Len(Tweet(s, url)) > MAX_TWEET_LENGTH
    THEN LET s1 == truncate_final(s, MAX_TWEET_LENGTH - Len(url) - 5)
         IN  <<s1, Tweet(s1, url)>>
    ELSE <<s, Tweet(s, url)>>

\* get_article_content, generate_summary and the composition of the tweet
Compose ==
    /\ pc = "compose"
    /\ \E body \in ContentResults(selected_article.url), llm \in LlmChoices :
         LET s == generate_summary(variant, selected_article.title, llm)
             composed == IF variant = "improved" THEN ComposeImproved(s, selected_article.url)
                         ELSE ComposeFinal(s, selected_article.url)
         IN  /\ content' = body
             /\ summary' = composed[1]
             /\ tweet_text' = composed[2]
    /\ calls' = calls \cup {"get_article_content", "generate_summary"}
    /\ Continue("post")
    /\ UNCHANGED <<cfgvars, timevars, selvars, attempt, repeated, depth, postvars, storevars,
                   hvars>>

\* a coordinator that records the article whenever the Publisher answered
\* with a duplicate rejection
AfterPost_commit_on_duplicate(r) ==
    IF r \in {"success", "duplicate"} THEN Continue("commit") ELSE Finish("failed")

\* a coordinator that records the article again after a plain rejection
AfterPost_commit_on_rejected(r) ==
    IF r \in {"success", "rejected"} THEN Continue("commit")
    ELSE IF r = "duplicate"
         THEN (IF attempt < 3 THEN Continue("retry") ELSE Finish("gave_up"))
    ELSE Finish("failed")

\* a coordinator that composes a modified tweet after any failed submission
AfterPost_retry_on_error(r) ==
    IF r = "success" THEN Continue("commit")
    ELSE IF attempt < RetryCap(variant) THEN Continue("retry")
    ELSE Finish(IF r = "duplicate" THEN "gave_up" ELSE "failed")

\* a coordinator that records the article when it gives up
AfterPost_record_on_give_up(r) ==
    IF r = "success" THEN Continue("commit")
    ELSE IF r = "duplicate"
         THEN (IF attempt < RetryCap(variant) THEN Continue("retry") ELSE Continue("commit"))
    ELSE Finish("failed")

\* where main goes with what post_to_twitter returned
AfterPost(r) ==
    IF r = "success" THEN Continue("commit")
    ELSE IF r = "duplicate"
         THEN (IF attempt < RetryCap(variant) THEN Continue("retry") ELSE Finish("gave_up"))
    ELSE Finish("failed")

\* post_to_twitter(tweet_text) and the branch main takes on its result
PostToTwitter ==
    /\ pc = "post"
    /\ \E r \in PostResults :
         /\ post_result' = r
         /\ n_success' = IF r = "success" THEN n_success + 1 ELSE n_success
         /\ n_dup' = IF r = "duplicate" THEN n_dup + 1 ELSE n_dup
         /\ published' = IF r = "success" THEN published \cup {selected_article.url}
                         ELSE published
         /\ AfterPost(r)
    /\ n_post' = n_post + 1
    /\ UNCHANGED <<cfgvars, timevars, selvars, textvars, storevars, calls, hvars>>

\* the modified tweet after a duplicate rejection.  In improved,
\* create_unique_tweet calls itself again when the summary already ends
\* with the variation random.choice picked: one step per call, and the
\* interpreter raises RecursionError when the calls nest too deep, which
\* nothing catches.
RetryCompose ==
    /\ pc = "retry"
    /\ IF variant = "improved"
       THEN \E variation \in VariationChoices :
              IF EndsWith(Terminated(summary), variation)
              THEN IF depth + 1 < RecursionLimit
                   THEN /\ depth' = depth + 1
                        /\ UNCHANGED <<pc, outcome, attempt, repeated, tweet_text>>
                   ELSE /\ Finish("crashed")
                        /\ UNCHANGED <<depth, attempt, repeated, tweet_text>>
              ELSE /\ tweet_text' = create_unique_tweet(summary, selected_article.url, variation)
                   /\ repeated' = (tweet_text' = tweet_text)
                   /\ attempt' = attempt + 1
                   /\ depth' = 0
                   /\ Continue("post")
       ELSE /\ tweet_text' = Tweet(final_new_summary(selected_article.title, content,
                                                     selected_article.url),
                                   selected_article.url)
            /\ repeated' = (tweet_text' = tweet_text)
            /\ attempt' = attempt + 1
            /\ depth' = 0
            /\ Continue("post")
    /\ UNCHANGED <<cfgvars, timevars, selvars, content, summary, postvars, storevars,
                   calls, hvars>>

\* update_posted_data(selected_article, posted_data), save included
UpdatePostedData ==
    /\ pc = "commit"
    /\ \E body \in ContentResults(selected_article.url) :
         /\ posted_data' = update_posted_data(selected_article, posted_data, body, clock)
         /\ disk' \in SaveResults(posted_data', disk)
    /\ stamp' = posted_data'.last_post_time
    /\ n_commit' = n_commit + 1
    /\ calls' = calls \cup {"get_article_content"}
    /\ Finish("posted")
    /\ UNCHANGED <<cfgvars, timevars, selvars, textvars, postvars, loaded, hvars>>

\* The process is killed in the middle of a run.  A kill that lands while
\* POSTED_ARTICLES_FILE is open for writing ("open(..., 'w')" truncates the
\* file before json.dump fills it) can leave the file empty or partial.
Kill ==
    /\ pc \notin {"idle", "done"}
    /\ disk' \in (IF (pc = "load" /\ disk = MissingFile) \/ pc = "commit"
                  THEN {disk, CorruptFile} ELSE {disk})
    /\ Finish("killed")
    /\ UNCHANGED <<cfgvars, timevars, selvars, textvars, postvars, posted_data, loaded,
                   n_commit, stamp, calls, hvars>>

Next ==
    \/ StartRun
    \/ LoadPostedArticles
    \/ RateCheck
    \/ GetArticles
    \/ SelectArticle
    \/ Compose
    \/ PostToTwitter
    \/ RetryCompose
    \/ UpdatePostedData
    \/ Kill

\* several runs against one store
Init == RunInit /\ scope = "runs" /\ TruncIdle /\ StoreIdle /\ PostIdle /\ ComposeIdle
        /\ PickIdle /\ SummaryIdle

Spec == Init /\ [][Next]_vars

\* one run, every summarizer answer and every variation
TextsInit == RunInit /\ scope = "texts" /\ TruncIdle /\ StoreIdle /\ PostIdle /\ ComposeIdle
        /\ PickIdle /\ SummaryIdle

SpecTexts == TextsInit /\ [][Next]_vars

\* one run that is given processor time until it ends
SpecTextsLive == TextsInit /\ [][Next]_vars /\ WF_vars(Next)

\* consecutive runs compared with each other
AgainInit == RunInit /\ scope = "again" /\ TruncIdle /\ StoreIdle /\ PostIdle /\ ComposeIdle
        /\ PickIdle /\ SummaryIdle

SpecAgain == AgainInit /\ [][Next]_vars

\* the coordinator's variables while the truncator harness runs
RunIdle == RunInit /\ variant = "improved" /\ scope = "runs"

\* ------------------------------------------------------------------------
\* Truncator harness: every text and budget within the bounds, one call
\* ------------------------------------------------------------------------

RECURSIVE TextsUpTo(_)
TextsUpTo(n) ==
    IF n = 0 THEN {<< >>}
    ELSE LET shorter == TextsUpTo(n - 1)
         IN  shorter \cup {Append(s, c) : s \in {x \in shorter : Len(x) = n - 1}, c \in Alphabet}

\* texts longer than PhraseBudget without a sentence mark: a comma past 70%
\* of the budget, a comma before it, words that fill more than 70% of the
\* budget, a first word that does not, and a single word
Phrases ==
    { Rep("a", 8) \o <<JpComma>> \o Rep("b", 3),
      Rep("a", 7) \o <<JpComma>> \o Rep("b", 4),
      <<"a", "a", Space, "b", "b", Space, "a", "a", Space, "b", "b">>,
      <<"a", JpComma, "a", "a", Space, "b", "b", "b", Space, "a", "a">>,
      Rep("a", 6) \o <<Space>> \o Rep("b", 6),
      Rep("a", 12) }

Texts == TextsUpTo(MaxLen) \cup Phrases

Budgets == 0..MaxBudget \cup {PhraseBudget}

Truncators == {"ensure_complete_sentences", "truncate_final", "truncate_to_complete_sentence"}

Truncate(fn, text, max_length) ==
    CASE fn = "ensure_complete_sentences" -> ensure_complete_sentences(text, max_length)
      [] fn = "truncate_final" -> truncate_final(text, max_length)
      [] fn = "truncate_to_complete_sentence" -> truncate_to_complete_sentence(text, max_length)

TruncInit ==
    /\ RunIdle
    /\ StoreIdle
    /\ PostIdle
    /\ ComposeIdle
    /\ PickIdle
    /\ SummaryIdle
    /\ t_pc = "input"
    /\ t_fn = "none"
    /\ t_text \in Texts
    /\ t_max \in Budgets
    /\ t_res = << >>

CallTruncator(fn) ==
    /\ t_pc = "input"
    /\ t_pc' = "returned"
    /\ t_fn' = fn
    /\ t_res' = Truncate(fn, t_text, t_max)
    /\ UNCHANGED <<t_text, t_max, rvars, svars, pvars, cvars, kvars, uvars>>

CallEnsureCompleteSentences == CallTruncator("ensure_complete_sentences")

CallTruncateFinal == CallTruncator("truncate_final")

CallTruncateImproved == CallTruncator("truncate_to_complete_sentence")

TruncNext ==
    \/ CallEnsureCompleteSentences
    \/ CallTruncateFinal
    \/ CallTruncateImproved

SpecTrunc == TruncInit /\ [][TruncNext]_vars

\* ------------------------------------------------------------------------
\* Store harness: the store functions of final, strict and hourly on the
\* store files a run can find, then classification and recording run after
\* run, each run finding the record the run before it saved
\* ------------------------------------------------------------------------

\* a record holding the first n articles, posted at hour 1
StoredRecord(n, kw) ==
    [posted |-> [i \in 1..n |-> Url(i)],
     content_hashes |-> [i \in 1..n |-> get_content_hash(Body(Url(i)))],
     keywords |-> IF kw THEN {<< <<"a", "a">>, 1 >>} ELSE {},
     last_post_time |-> IF n > 0 THEN 1 ELSE 0]

\* the store files: none, an unparseable one, and JSON objects that lack
\* at most one key
StoreFiles(v) ==
    {NoFile, BadFile} \cup
    {JsonFile(StoredRecord(n, kw), lacks) :
        n \in 0..MaxStored,
        kw \in (IF v = "strict" THEN BOOLEAN ELSE {FALSE}),
        lacks \in {{}} \cup {{f} : f \in Fields(v)}}

TempFiles(v) ==
    IF v = "hourly" THEN {NoFile, BadFile, JsonFile(StoredRecord(1, FALSE), {})} ELSE {NoFile}

\* the candidates of the harness
Candidates == 1..(ARTICLES_TO_TRACK + 2)

StoreInit ==
    /\ RunIdle
    /\ TruncIdle
    /\ PostIdle
    /\ ComposeIdle
    /\ PickIdle
    /\ SummaryIdle
    /\ s_pc = "file"
    /\ s_variant \in {"final", "strict", "hourly"}
    /\ s_file \in StoreFiles(s_variant)
    /\ s_file0 = s_file
    /\ s_temp \in TempFiles(s_variant)
    /\ s_record = Dict(FreshRecord, {})
    /\ s_now \in (IF s_variant = "strict" THEN {24, 25, 26} ELSE {25})
    /\ s_article = 0
    /\ s_body = None
    /\ s_dup = FALSE
    /\ s_urls = << >>
    /\ s_hashes = << >>

\* posted_data = load_posted_articles()
SLoad ==
    /\ s_pc = "file"
    /\ s_record' = load_posted_articles(s_variant, s_file, s_temp)
    /\ s_file' \in FileAfterLoad(s_variant, s_file)
    /\ s_pc' = IF s_record'.raised THEN "raised" ELSE "loaded"
    /\ UNCHANGED <<s_variant, s_file0, s_temp, s_now, s_article, s_body, s_dup, s_urls,
                   s_hashes, tvars, pvars, cvars, kvars, uvars, rvars>>

\* the rate gate of main, in the run that loaded the file and in each later
\* run, three hours after a recorded post
SRateCheck ==
    /\ s_variant # "hourly"
    /\ \/ s_pc = "loaded" /\ s_now' = s_now
       \/ /\ s_pc = "recorded"
          /\ Len(s_urls) <= ARTICLES_TO_TRACK
          /\ s_now' = s_now + MINIMUM_HOURS_BETWEEN_POSTS
    /\ s_pc' = IF s_now' - last_post_time_of(s_record) < MINIMUM_HOURS_BETWEEN_POSTS
               THEN "skipped" ELSE "gated"
    /\ UNCHANGED <<s_variant, s_file, s_file0, s_temp, s_record, s_article, s_body, s_dup,
                   s_urls, s_hashes, tvars, pvars, cvars, kvars, uvars, rvars>>

\* is_similar_to_posted(article, posted_data) on one candidate
SClassify ==
    /\ s_pc = "gated"
    /\ \E i \in Candidates : \E body \in ContentResults(Url(i)) :
         LET r == is_similar(s_variant, SArticle(i), s_record, body, s_now)
         IN  /\ s_article' = i
             /\ s_body' = body
             /\ s_pc' = IF r[1] = "raise" THEN "raised" ELSE "classified"
             /\ s_dup' = IF r[1] = "raise" THEN FALSE ELSE r[2]
    /\ UNCHANGED <<s_variant, s_file, s_file0, s_temp, s_record, s_now, s_urls, s_hashes,
                   tvars, pvars, cvars, kvars, uvars, rvars>>

\* update_posted_data(selected_article, posted_data) after the post of a
\* candidate that was classified new, the save succeeding
SRecord ==
    /\ s_pc = "classified"
    /\ ~s_dup
    /\ \E body \in ContentResults(Url(s_article)) :
         LET article == SArticle(s_article)
             d == record_published(s_variant, article, s_record, body, s_now)
         IN  /\ s_record' = d
             /\ s_pc' = IF d.raised THEN "raised" ELSE "recorded"
             /\ s_file' = IF d.raised THEN s_file ELSE JsonFile(d.data, d.lacks)
             /\ s_urls' = IF d.raised THEN s_urls ELSE Append(s_urls, article.url)
             /\ s_hashes' = IF d.raised THEN s_hashes
                            ELSE Append(s_hashes,
                                        get_content_hash(IF body # None THEN body
                                                         ELSE article.title))
    /\ UNCHANGED <<s_variant, s_file0, s_temp, s_now, s_article, s_body, s_dup, tvars, pvars, cvars, kvars, uvars, rvars>>

StoreNext ==
    \/ SLoad
    \/ SRateCheck
    \/ SClassify
    \/ SRecord

SpecStore == StoreInit /\ [][StoreNext]_vars

\* ------------------------------------------------------------------------
\* Composer harness: the first tweet as main of bot, final, improved and
\* fixed builds it from the summary and the URL of the selected article
\* ------------------------------------------------------------------------

\* the inline truncation of bot's main: to the last full-width or western
\* period within the budget, else a plain cut
truncate_bot(s, max_summary_length) ==
    IF Len(s) > max_summary_length
    THEN LET truncated_summary == Slice(s, max_summary_length)
             last_period == RFindAny(truncated_summary, {JpPeriod, EnPeriod})
         IN  IF last_period > 0 THEN Slice(s, last_period + 1) ELSE truncated_summary
    ELSE s

\* the first tweet of the bot script
ComposeBot(s, url) ==
    Tweet(truncate_bot(s, MAX_TWEET_LENGTH - TWITTER_URL_LENGTH - 2), url)

\* the first tweet of the fixed script
ComposeFixed(s, url) ==
    LET s1 == ensure_complete_sentences(s, MAX_TWEET_LENGTH - Len(url) - 5)
        s2 == IF EndsWithAny(s1, FixedMarks) THEN s1 ELSE Append(s1, JpPeriod)
    IN  IF Len(Tweet(s2, url)) > MAX_TWEET_LENGTH
        THEN Tweet(ensure_complete_sentences(s2, MAX_TWEET_LENGTH - Len(url) - 10), url)
        ELSE Tweet(s2, url)

Composers == {"bot", "final", "improved", "fixed"}

\* tweet_text of the first submission
ComposeBy(fn, s, url) ==
    CASE fn = "bot" -> ComposeBot(s, url)
      [] fn = "final" -> ComposeFinal(s, url)[2]
      [] fn = "improved" -> ComposeImproved(s, url)[2]
      [] fn = "fixed" -> ComposeFixed(s, url)

\* lengths of the summaries, around the budgets of the scripts
SummaryLens == {10, 100, 200, 225, 229, 230, 231, 232, 240, 247, 248, 249, 250, 254, 255, 256,
                270, 300}

\* summaries: one sentence, one sentence without its mark, two sentences
ComposeSummaries ==
    {Rep("a", n - 1) \o <<JpPeriod>> : n \in SummaryLens}
    \cup {Rep("a", n) : n \in SummaryLens}
    \cup {Rep("a", n - 22) \o <<JpPeriod>> \o Rep("a", 20) \o <<JpPeriod>> :
             n \in SummaryLens \ {10}}

\* the longest URL that leaves a budget of zero or more, and the next
ComposeUrlLens == {ShortUrlLen, UrlLen, MAX_TWEET_LENGTH - 5, MAX_TWEET_LENGTH - 4, LongUrlLen}

ComposeInit ==
    /\ RunIdle
    /\ TruncIdle
    /\ StoreIdle
    /\ PostIdle
    /\ PickIdle
    /\ SummaryIdle
    /\ c_pc = "input"
    /\ c_fn = "none"
    /\ c_summary \in ComposeSummaries
    /\ c_url \in {Rep("u", n) : n \in ComposeUrlLens}
    /\ c_res = << >>

CallComposer(fn) ==
    /\ c_pc = "input"
    /\ c_pc' = "composed"
    /\ c_fn' = fn
    /\ c_res' = ComposeBy(fn, c_summary, c_url)
    /\ UNCHANGED <<c_summary, c_url, tvars, svars, pvars, kvars, uvars, rvars>>

CallComposeBot == CallComposer("bot")

CallComposeFinal == CallComposer("final")

CallComposeImproved == CallComposer("improved")

CallComposeFixed == CallComposer("fixed")

ComposeNext ==
    \/ CallComposeBot
    \/ CallComposeFinal
    \/ CallComposeImproved
    \/ CallComposeFixed

SpecCompose == ComposeInit /\ [][ComposeNext]_vars

\* ------------------------------------------------------------------------
\* Publisher harness: one post_to_twitter call of improved (MAX_RETRIES = 3)
\* or openrouter (MAX_RETRIES = 2), one step per pass of its loop
\* ------------------------------------------------------------------------

\* what one requests.post can meet: a status code (403 with or without
\* "duplicate content" in the body), the 20 second timeout, another exception
Responses == {"201", "403 duplicate", "403", "500", "429", "timeout", "exception"}

\* "for attempt in range(MAX_RETRIES)"
Retries(v) == IF v = "improved" THEN 3 ELSE 2

\* a loop that goes on after a duplicate rejection
AttemptOutcome_retry_duplicate(v, response) ==
    IF response = "201" THEN "success" ELSE "continue"

\* one pass of the loop: what it returns, or "continue" for the next pass
AttemptOutcome(v, response) ==
    IF response = "403 duplicate" THEN "duplicate"
    ELSE IF response \in {"429", "timeout", "exception"} THEN "continue"
    ELSE IF response = "201" THEN "success"
    ELSE IF v = "improved" THEN "rejected"
    ELSE "continue"

PostInit ==
    /\ RunIdle
    /\ TruncIdle
    /\ StoreIdle
    /\ ComposeIdle
    /\ PickIdle
    /\ SummaryIdle
    /\ p_pc = "call"
    /\ p_variant \in {"improved", "openrouter"}
    /\ p_log = << >>
    /\ p_result = "none"

\* one pass of the loop of post_to_twitter
PostAttempt ==
    /\ p_pc = "call"
    /\ Len(p_log) < Retries(p_variant)
    /\ \E response \in Responses :
         LET r == AttemptOutcome(p_variant, response)
         IN  /\ p_log' = Append(p_log, response)
             /\ p_pc' = IF r = "continue" THEN "call" ELSE "returned"
             /\ p_result' = IF r = "continue" THEN p_result ELSE r
    /\ UNCHANGED <<p_variant, tvars, svars, cvars, kvars, uvars, rvars>>

\* the loop is over: return False, "error"
PostExhausted ==
    /\ p_pc = "call"
    /\ Len(p_log) >= Retries(p_variant)
    /\ p_pc' = "returned"
    /\ p_result' = "error"
    /\ UNCHANGED <<p_variant, p_log, tvars, svars, cvars, kvars, uvars, rvars>>

PostNext ==
    \/ PostAttempt
    \/ PostExhausted

SpecPost == PostInit /\ [][PostNext]_vars

\* ------------------------------------------------------------------------
\* Properties of the coordinator across runs
\* ------------------------------------------------------------------------

\* C35: a Success comes at least MINIMUM_HOURS_BETWEEN_POSTS after the
\* Success before it, where stamp is the time update_posted_data took for
\* that Success, whether or not its save_posted_articles wrote the file
C35_SuccessesApart ==
    [][n_success' > n_success =>
          (stamp = 0 \/ clock - stamp >= MINIMUM_HOURS_BETWEEN_POSTS)]_vars

\* ------------------------------------------------------------------------
\* Summary harness: main of final, improved and strict from the fetch of
\* the selected article's body to the call of post_to_twitter, for every
\* way the request to the summarizer can end
\* ------------------------------------------------------------------------

\* content.split('\n'): the lines of the text
RECURSIVE SplitLines(_)
SplitLines(text) ==
    LET breaks == {i \in 1..Len(text) : text[i] = Newline}
        first == CHOOSE i \in breaks : \A j \in breaks : i <= j
    IN  IF breaks = {} THEN <<text>>
        ELSE <<SubSeq(text, 1, first - 1)>> \o SplitLines(SubSeq(text, first + 1, Len(text)))

\* ''.join(parts), and sep.join(parts)
RECURSIVE Join(_, _)
Join(parts, sep) ==
    IF parts = << >> THEN << >>
    ELSE IF Len(parts) = 1 THEN parts[1]
    ELSE parts[1] \o sep \o Join(Tail(parts), sep)

\* "for p in paragraphs: if total_length < 500: working_paragraphs.append(p)"
RECURSIVE TakeParagraphs(_, _)
TakeParagraphs(paragraphs, total_length) ==
    IF paragraphs = << >> \/ total_length >= 500 THEN << >>
    ELSE <<paragraphs[1]>> \o TakeParagraphs(Tail(paragraphs), total_length + Len(paragraphs[1]))

\* the while loop of generate_summary_from_content: the sentences of more
\* than 10 characters, up to the one that brings the summary to 200
RECURSIVE ExtractSentences(_, _, _)
ExtractSentences(working_text, start, sentences) ==
    LET ends == {i \in (start + 1)..Len(working_text) : working_text[i] \in {JpPeriod, EnPeriod}}
        next_end == CHOOSE i \in ends : \A j \in ends : i <= j
        sentence == SubSeq(working_text, start + 1, next_end)
    IN  IF ~(start < Len(working_text) /\ Len(Join(sentences, << >>)) < 200) \/ ends = {}
        THEN sentences
        ELSE ExtractSentences(working_text, next_end,
                              IF Len(sentence) > 10 THEN Append(sentences, sentence)
                              ELSE sentences)

\* strict.py: generate_summary_from_content(title, content), content as body
generate_summary_from_content(title, body) ==
    IF body = None \/ Len(body) < 20 THEN TitleSummary(title)
    ELSE LET stripped == [i \in 1..Len(SplitLines(body)) |-> Strip(SplitLines(body)[i])]
             NonEmpty(p) == p # << >>
             working_paragraphs == TakeParagraphs(SelectSeq(stripped, NonEmpty), 0)
             working_text == Join(working_paragraphs, <<Space>>)
             sentences == ExtractSentences(working_text, 0, << >>)
             joined == Join(sentences, << >>)
             last_period == RFindAny(Slice(joined, 200), {JpPeriod, EnPeriod})
         IN  IF working_paragraphs = << >> \/ sentences = << >> THEN TitleSummary(title)
             ELSE IF Len(joined) > 200
                  THEN (IF last_period > 0 THEN Slice(joined, last_period + 1) ELSE sentences[1])
             ELSE joined

\* how the request to the summarizer can end: no OPENROUTER_API_KEY, an
\* exception (connection error, the 30 second timeout, an HTTP error status,
\* a body that is no JSON), a JSON answer without choices, or a text, which
\* can be the empty one
Answers ==
    {<<"no_key">>, <<"exception">>, <<"no_choices">>, <<"ok", << >> >>}
    \cup (LlmSummaries \ {<<"failed">>})

\* strict.py: summarize_article(title, content), content as body
summarize_article(title, body, answer) ==
    IF answer[1] = "ok" THEN answer[2] ELSE generate_summary_from_content(title, body)

\* summary = generate_summary(title, content) of final and improved,
\* summary = summarize_article(title, content) of strict
summarize(v, title, body, answer) ==
    IF v = "strict" THEN summarize_article(title, body, answer)
    ELSE generate_summary(v, title, IF answer[1] = "ok" THEN answer ELSE <<"failed">>)

\* the tweet of the strict script: cut at the last full-width period of the
\* budget, else at the last western one, else at the budget
ComposeStrict(s, url) ==
    IF Len(Tweet(s, url)) > MAX_TWEET_LENGTH
    THEN LET head == Slice(s, MAX_TWEET_LENGTH - Len(url) - 5)
             s1 == IF RFindAny(head, {JpPeriod}) >= 0
                   THEN Slice(s, RFindAny(head, {JpPeriod}) + 1)
                   ELSE IF RFindAny(head, {EnPeriod}) >= 0
                   THEN Slice(s, RFindAny(head, {EnPeriod}) + 1)
                   ELSE head
         IN  Tweet(s1, url)
    ELSE Tweet(s, url)

\* titles: without a mark, with the full-width period, with a question mark
SummaryTitles == {Title(1), Rep("t", TitleLen - 1) \o <<JpPeriod>>, Rep("t", TitleLen - 1) \o <<FwQuestion>>}

\* bodies: none, one too short for the local summary, two sentences, a text
\* without a period, two paragraphs of a div, a long article
SummaryBodies ==
    { None,
      Rep("b", 14) \o <<JpPeriod>>,
      Rep("b", 29) \o <<JpPeriod>> \o Rep("c", 5) \o <<JpPeriod>> \o Rep("d", 20) \o <<EnPeriod>>,
      Rep("b", 30),
      <<Space>> \o Rep("b", 19) \o <<JpPeriod, Newline, Space>> \o Rep("c", 12),
      Rep("b", 119) \o <<JpPeriod>> \o Rep("c", 99) \o <<JpPeriod>> \o Rep("d", 30) \o <<JpPeriod>> }

SummaryInit ==
    /\ RunIdle
    /\ TruncIdle
    /\ StoreIdle
    /\ PostIdle
    /\ ComposeIdle
    /\ PickIdle
    /\ u_pc = "fetch"
    /\ u_variant \in {"final", "improved", "strict"}
    /\ u_title \in SummaryTitles
    /\ u_body = None
    /\ u_answer = <<"none">>
    /\ u_summary = << >>
    /\ u_tweet = << >>

\* content = get_article_content(selected_article['url'])
SumFetch ==
    /\ u_pc = "fetch"
    /\ u_body' \in SummaryBodies
    /\ u_pc' = "summarize"
    /\ UNCHANGED <<u_variant, u_title, u_answer, u_summary, u_tweet,
                   tvars, svars, pvars, cvars, kvars, rvars>>

\* summary = generate_summary(title, content)
SumSummarize ==
    /\ u_pc = "summarize"
    /\ \E answer \in Answers :
         /\ u_answer' = answer
         /\ u_summary' = summarize(u_variant, u_title, u_body, answer)
    /\ u_pc' = "compose"
    /\ UNCHANGED <<u_variant, u_title, u_body, u_tweet, tvars, svars, pvars, cvars, kvars, rvars>>

\* tweet_text is built and checked against MAX_TWEET_LENGTH
SumCompose ==
    /\ u_pc = "compose"
    /\ u_tweet' = (CASE u_variant = "final" -> ComposeFinal(u_summary, Url(1))[2]
                     [] u_variant = "improved" -> ComposeImproved(u_summary, Url(1))[2]
                     [] u_variant = "strict" -> ComposeStrict(u_summary, Url(1)))
    /\ u_pc' = "post"
    /\ UNCHANGED <<u_variant, u_title, u_body, u_answer, u_summary,
                   tvars, svars, pvars, cvars, kvars, rvars>>

SummaryNext ==
    \/ SumFetch
    \/ SumSummarize
    \/ SumCompose

SpecSummary == SummaryInit /\ [][SummaryNext]_vars

\* ------------------------------------------------------------------------
\* Selection harness: main of simple and openrouter (a random new article)
\* and of bot and hourly (the first new article that is not the last posted
\* one), run after run against one store that starts with no file
\* ------------------------------------------------------------------------

\* runs of the selection harness
MaxPickRuns == 3

\* the record of the four scripts: simple and openrouter keep posted_urls
\* (posted), posted_titles (titles) and last_post_time, bot and hourly keep
\* posted and last_posted_url (last)
NewRecord == [posted |-> << >>, titles |-> << >>, last |-> None, last_post_time |-> 0]

AbsentFile == [state |-> "missing", data |-> NewRecord]

BrokenFile == [state |-> "corrupt", data |-> NewRecord]

Written(data) == [state |-> "ok", data |-> data]

\* the scripts that choose with random.choice
RandomPick == {"simple", "openrouter"}

\* a link of the page: the title of one story under the URL of a post
Link(u, t) == [title |-> Title(t), url |-> Url(u)]

\* what get_articles can return: the page can show a story under a new URL
\* (links 1 and 3 of the second list carry one title) and a link twice
PageLists ==
    { << >>,
      <<Link(1, 1), Link(2, 2), Link(3, 3)>>,
      <<Link(1, 1), Link(3, 1), Link(2, 2)>>,
      <<Link(2, 2), Link(2, 2), Link(1, 1)>> }

\* load_posted_articles: the dict it returns
pick_load(v, file, temp) ==
    IF file.state = "ok" THEN file.data
    ELSE IF v = "hourly" /\ file.state = "missing" /\ temp.state = "ok" THEN temp.data
    ELSE NewRecord

\* the file after load_posted_articles: simple and openrouter write the new
\* record when there was no file
pick_file_after_load(v, file) ==
    IF v \in RandomPick /\ file.state = "missing"
    THEN {Written(NewRecord), file, BrokenFile}
    ELSE {file}

\* "if article['url'] not in posted_data['posted_urls'] and article['title']
\*  not in posted_data['posted_titles']" of simple and openrouter,
\* "if article['url'] not in posted_data['posted']" of bot and hourly
is_new(v, article, data) ==
    /\ ~InList(article.url, data.posted)
    /\ v \in RandomPick => ~InList(article.title, data.titles)

\* new_articles: the articles that pass the filter, in page order
filter_new(v, list, data) ==
    LET Keep(article) == is_new(v, article, data) IN SelectSeq(list, Keep)

\* a choice that always takes the first element
random_choice_first(list) == {list[1]}

\* random.choice(list): the values it can return
random_choice(list) == {list[i] : i \in 1..Len(list)}

\* "for article in new_articles: if article['url'] != last_posted_url":
\* the index of the article the loop stops at, 0 when it runs to its end
first_other(list, last) ==
    LET others == {i \in 1..Len(list) : list[i].url # last}
    IN  IF others = {} THEN 0 ELSE CHOOSE i \in others : \A j \in others : i <= j

\* an update that sets last_posted_url only while it is unset
pick_update_first_only(v, article, data, now) ==
    [posted |-> PushBounded(data.posted, article.url),
     titles |-> data.titles,
     last |-> IF data.last = None THEN article.url ELSE data.last,
     last_post_time |-> data.last_post_time]

\* update_posted_data of simple and openrouter, the update at the end of
\* main of bot and hourly: the record before the save
pick_update(v, article, data, now) ==
    IF v \in RandomPick
    THEN [posted |-> PushBounded(data.posted, article.url),
          titles |-> PushBounded(data.titles, article.title),
          last |-> data.last,
          last_post_time |-> now]
    ELSE [posted |-> PushBounded(data.posted, article.url),
          titles |-> data.titles,
          last |-> article.url,
          last_post_time |-> data.last_post_time]

\* the files after save_posted_articles: <<main file, temporary copy>>.  The
\* hourly script writes the copy after the main file and ignores its errors.
pick_saved(v, data, file, temp) ==
    IF v = "hourly"
    THEN {<<Written(data), t>> : t \in {Written(data), temp, BrokenFile}}
         \cup {<<file, temp>>, <<BrokenFile, temp>>}
    ELSE {<<Written(data), temp>>, <<file, temp>>, <<BrokenFile, temp>>}

PickInit ==
    /\ RunIdle
    /\ TruncIdle
    /\ StoreIdle
    /\ PostIdle
    /\ ComposeIdle
    /\ SummaryIdle
    /\ k_pc = "idle"
    /\ k_variant \in {"simple", "openrouter", "bot", "hourly"}
    /\ k_outcome = "none"
    /\ k_runs = 0
    /\ k_now = HOURS_BETWEEN_POSTS
    /\ k_file = AbsentFile
    /\ k_temp = AbsentFile
    /\ k_record = NewRecord
    /\ k_articles = << >>
    /\ k_new = << >>
    /\ k_selected = NoArticle
    /\ k_branch = "none"

PickEnd(how) ==
    /\ k_pc' = "done"
    /\ k_outcome' = how

PickGo(at) ==
    /\ k_pc' = at
    /\ k_outcome' = "running"

\* The scheduler starts the script, within the hour or an hour after the
\* start before (bot and hourly do not read the time); the workflow of
\* hourly can start from a checkout without the main file.  main checks the
\* required environment variables.
PickStart ==
    /\ k_pc \in {"idle", "done"}
    /\ k_runs < MaxPickRuns
    /\ k_runs' = k_runs + 1
    /\ \E tick \in (IF k_variant \in RandomPick THEN {0, HOURS_BETWEEN_POSTS} ELSE {0}) :
         k_now' = k_now + tick
    /\ k_file' \in (IF k_variant = "hourly" THEN {k_file, AbsentFile} ELSE {k_file})
    /\ k_record' = NewRecord
    /\ k_articles' = << >>
    /\ k_new' = << >>
    /\ k_selected' = NoArticle
    /\ k_branch' = "none"
    /\ \E missing_vars \in BOOLEAN :
         IF missing_vars THEN PickEnd("abort") ELSE PickGo("load")
    /\ UNCHANGED <<k_variant, k_temp, tvars, svars, pvars, cvars, uvars, rvars>>

\* load_posted_articles
PickLoad ==
    /\ k_pc = "load"
    /\ k_record' = pick_load(k_variant, k_file, k_temp)
    /\ k_file' \in pick_file_after_load(k_variant, k_file)
    /\ PickGo(IF k_variant \in RandomPick THEN "rate_check" ELSE "get_articles")
    /\ UNCHANGED <<k_variant, k_runs, k_now, k_temp, k_articles, k_new, k_selected, k_branch,
                   tvars, svars, pvars, cvars, uvars, rvars>>

\* the rate gate of simple and openrouter
PickRateCheck ==
    /\ k_pc = "rate_check"
    /\ IF k_now - k_record.last_post_time < HOURS_BETWEEN_POSTS
       THEN PickEnd("skip_rate")
       ELSE PickGo("get_articles")
    /\ UNCHANGED <<k_variant, k_runs, k_now, k_file, k_temp, k_record, k_articles, k_new,
                   k_selected, k_branch, tvars, svars, pvars, cvars, uvars, rvars>>

\* get_articles and the "No articles found" return
PickGetArticles ==
    /\ k_pc = "get_articles"
    /\ \E list \in PageLists :
         /\ k_articles' = list
         /\ IF list = << >> THEN PickEnd("no_articles") ELSE PickGo("filter")
    /\ UNCHANGED <<k_variant, k_runs, k_now, k_file, k_temp, k_record, k_new, k_selected,
                   k_branch, tvars, svars, pvars, cvars, uvars, rvars>>

\* the filter loop and the "No new articles to post" return
PickFilter ==
    /\ k_pc = "filter"
    /\ k_new' = filter_new(k_variant, k_articles, k_record)
    /\ IF k_new' = << >> THEN PickEnd("no_new") ELSE PickGo("select")
    /\ UNCHANGED <<k_variant, k_runs, k_now, k_file, k_temp, k_record, k_articles, k_selected,
                   k_branch, tvars, svars, pvars, cvars, uvars, rvars>>

\* the selection: random.choice(new_articles) in simple and openrouter; in
\* bot and hourly the loop over new_articles, then the fallback on
\* new_articles[0]
PickSelect ==
    /\ k_pc = "select"
    /\ IF k_variant \in RandomPick
       THEN /\ k_selected' \in random_choice(k_new)
            /\ k_branch' = "choice"
       ELSE LET i == first_other(k_new, k_record.last)
            IN  /\ k_selected' = IF i > 0 THEN k_new[i] ELSE k_new[1]
                /\ k_branch' = IF i > 0 THEN "loop" ELSE "fallback"
    /\ PickGo("post")
    /\ UNCHANGED <<k_variant, k_runs, k_now, k_file, k_temp, k_record, k_articles, k_new,
                   tvars, svars, pvars, cvars, uvars, rvars>>

\* post_to_twitter(tweet_text): bot and hourly get True or False; simple
\* and openrouter try a modified tweet after a duplicate rejection
PickPost ==
    /\ k_pc = "post"
    /\ \E r \in {"success", "duplicate", "failed"} :
         IF r = "success" THEN PickGo("update")
         ELSE IF r = "duplicate" /\ k_variant \in RandomPick THEN PickGo("retry_post")
         ELSE PickEnd("failed")
    /\ UNCHANGED <<k_variant, k_runs, k_now, k_file, k_temp, k_record, k_articles, k_new,
                   k_selected, k_branch, tvars, svars, pvars, cvars, uvars, rvars>>

\* post_to_twitter(modified_tweet)
PickRetryPost ==
    /\ k_pc = "retry_post"
    /\ \E retry_success \in BOOLEAN :
         IF retry_success THEN PickGo("update") ELSE PickEnd("gave_up")
    /\ UNCHANGED <<k_variant, k_runs, k_now, k_file, k_temp, k_record, k_articles, k_new,
                   k_selected, k_branch, tvars, svars, pvars, cvars, uvars, rvars>>

\* the record is updated and saved
PickUpdate ==
    /\ k_pc = "update"
    /\ k_record' = pick_update(k_variant, k_selected, k_record, k_now)
    /\ \E files \in pick_saved(k_variant, k_record', k_file, k_temp) :
         /\ k_file' = files[1]
         /\ k_temp' = files[2]
    /\ PickEnd("posted")
    /\ UNCHANGED <<k_variant, k_runs, k_now, k_articles, k_new, k_selected, k_branch,
                   tvars, svars, pvars, cvars, uvars, rvars>>

PickNext ==
    \/ PickStart
    \/ PickLoad
    \/ PickRateCheck
    \/ PickGetArticles
    \/ PickFilter
    \/ PickSelect
    \/ PickPost
    \/ PickRetryPost
    \/ PickUpdate

SpecPick == PickInit /\ [][PickNext]_vars

\* ------------------------------------------------------------------------
\* Properties of the publish coordinator
\* ------------------------------------------------------------------------

\* C1 (as stated): a URL the Publisher has accepted is never submitted again
\* by a later run
C1_NeverSubmittedAgain ==
    pc = "post" => selected_article.url \notin published

\* C1: a run never selects or submits a candidate whose URL is in the posted
\* list of the record it loaded, and a run that ended with the article
\* recorded holds its URL in the posted list
C1_LoadedUrlsNotSubmitted ==
    /\ selected_article # NoArticle => ~InList(selected_article.url, loaded.posted)
    /\ outcome = "posted" => InList(selected_article.url, posted_data.posted)

\* a later run has passed over a published URL of its loaded record and
\* submits another candidate
C1_Witness ==
    /\ pc = "post"
    /\ idx > 1
    /\ articles[1].url \in published
    /\ InList(articles[1].url, loaded.posted)
    /\ selected_article.url \notin published

\* C2 (as stated): after a run without a Success the store file is what it
\* was before the run, also when it did not exist
C2_StoreIdentical ==
    (pc = "done" /\ n_success = 0) => disk = disk0

\* C2: while no Publisher call of the run has returned Success, an existing
\* store file is as it was when the run started, and a missing one is either
\* still missing or is what load_posted_articles made of it when it wrote
\* the empty record; the record in memory is the one that was loaded
C2_NoSpeculativeCommit ==
    n_success = 0 =>
        /\ posted_data = loaded
        /\ \/ disk = disk0
           \/ /\ disk0 = MissingFile
              /\ pc # "load"
              /\ disk \in {FileOf(EmptyRecord), CorruptFile}

\* a run that found no store file ended after a rejected submission, and
\* the file now holds the empty record
C2_Witness ==
    /\ pc = "done"
    /\ n_post > 0
    /\ n_success = 0
    /\ disk0 = MissingFile
    /\ disk = FileOf(EmptyRecord)

\* C3: update_posted_data runs only after a Success of the same run and at
\* most once per run, and every submission of a run is for the same candidate
C3_CommitOnlyAfterSuccess ==
    /\ [](/\ n_commit <= n_success
          /\ n_success <= 1
          /\ pc = "commit" => (post_result = "success" /\ n_commit = 0))
    /\ [][(n_post > 0 /\ n_post' > 0) => selected_article' = selected_article]_vars

\* a run recorded its article once, after a retry was accepted
C3_Witness ==
    /\ pc = "done"
    /\ n_post > 1
    /\ n_success = 1
    /\ n_commit = 1

C5_GivesUpAfterThird ==
    /\ (n_dup = n_post) => n_post <= 3
    /\ outcome = "gave_up" => n_post = 3

\* C5: when every answer is a duplicate rejection the run gives up after the
\* original submission and every retry of the script have been rejected
\* (four submissions in improved, two in final), with nothing recorded
C5_GivesUpAtRetryCap ==
    /\ n_post <= (IF variant = "improved" THEN 4 ELSE 2)
    /\ outcome = "gave_up" =>
          /\ n_post = (IF variant = "improved" THEN 4 ELSE 2)
          /\ n_dup = n_post
          /\ n_commit = 0
          /\ posted_data = loaded
          /\ (disk0 # MissingFile => disk = disk0)

\* the improved script gave up after four rejected submissions
C5_Witness ==
    /\ outcome = "gave_up"
    /\ variant = "improved"
    /\ n_post = 4
    /\ n_dup = 4

\* C6: each retry text differs from the text submitted just before it
C6_RetryDiffers ==
    (pc = "post" /\ attempt >= 1) => ~repeated

\* C7: each retry text is at most MAX_TWEET_LENGTH long and its summary part
\* ends with a terminal mark
C7_RetryContract ==
    (pc = "post" /\ attempt >= 1) =>
        /\ Len(tweet_text) <= MAX_TWEET_LENGTH
        /\ EndsWithAny(SummaryPart(tweet_text), TerminalMarks)

\* C13: every recorded post stores a last_post_time that is at least the
\* one stored by the recorded post before it, the time in the file is never
\* ahead of the clock, and between two readable states of the file it
\* changes only when update_posted_data runs after a Success
C13_LastPostTimeMonotone ==
    /\ [](IsRecord(disk) => disk.data.last_post_time <= clock)
    /\ [][(pc = "commit" /\ outcome' = "posted")
             => /\ posted_data'.last_post_time >= stamp
                /\ posted_data'.last_post_time >= posted_data.last_post_time]_vars
    /\ [][(IsRecord(disk) /\ IsRecord(disk')
           /\ disk'.data.last_post_time # disk.data.last_post_time)
             => /\ pc = "commit"
                /\ post_result = "success"
                /\ outcome' = "posted"
                /\ disk'.data.last_post_time > disk.data.last_post_time]_vars

\* a second post has been recorded, with a later time than the first
C13_Witness ==
    /\ outcome = "posted"
    /\ IsRecord(disk)
    /\ Len(disk.data.posted) = 2
    /\ loaded.last_post_time > 0
    /\ disk.data.last_post_time > loaded.last_post_time

\* C16: after a kill the file is the record that was there before the run
\* or the complete record of the run's commit
C16_CrashSafe ==
    outcome = "killed" =>
        \/ disk = disk0
        \/ /\ n_success = 1
           /\ IsRecord(disk)
           /\ disk.data.posted = PushBounded(loaded.posted, selected_article.url)

\* C17: when the save after a Success fails, the run ends normally and the
\* file is still the valid record that was there before the run
C17_FailedSaveKeepsRecord ==
    (outcome = "posted" /\ disk # FileOf(posted_data) /\ IsRecord(disk0)) => disk = disk0

\* C18: the selected candidate is the first of the list that is not a
\* duplicate: the loop stands on it, its URL is not in the loaded posted
\* list, and every candidate before it has its URL in the posted list or a
\* fingerprint in the content hashes
C18_FirstNonDuplicate ==
    selected_article # NoArticle =>
        /\ idx \in 1..Len(articles)
        /\ articles[idx] = selected_article
        /\ ~InList(selected_article.url, loaded.posted)
        /\ \A j \in 1..(idx - 1) :
              \/ InList(articles[j].url, loaded.posted)
              \/ \E body \in ContentResults(articles[j].url) :
                    InList(get_content_hash(IF body # None THEN body ELSE articles[j].title),
                           loaded.content_hashes)

\* the second candidate was selected after the first was found posted, and
\* a third was left unevaluated
C18_Witness ==
    /\ pc = "post"
    /\ idx = 2
    /\ Len(articles) = 3
    /\ InList(articles[1].url, loaded.posted)

\* C19: a run that finds no candidates or only duplicates ends without a
\* summarizer call, a Publisher call or an update of the record, and the
\* file is as load_posted_articles left it; a run that summarizes or
\* submits has a selected candidate
C19_SkipWithoutCandidate ==
    /\ outcome \in {"no_articles", "no_candidate"} =>
          /\ "generate_summary" \notin calls
          /\ n_post = 0
          /\ n_commit = 0
          /\ posted_data = loaded
          /\ \/ disk = disk0
             \/ disk0 = MissingFile /\ disk \in {FileOf(EmptyRecord), CorruptFile}
    /\ ("generate_summary" \in calls \/ n_post > 0) =>
          (selected_article # NoArticle /\ articles # << >>)
    /\ ("get_articles" \in calls /\ articles = << >>) => outcome = "no_articles"
    /\ outcome = "no_candidate" =>
          \A j \in 1..Len(articles) :
              \/ InList(articles[j].url, loaded.posted)
              \/ \E body \in ContentResults(articles[j].url) :
                    InList(get_content_hash(IF body # None THEN body ELSE articles[j].title),
                           loaded.content_hashes)

\* every candidate of a run was classified duplicate, one of them by its
\* fingerprint
C19_Witness ==
    /\ outcome = "no_candidate"
    /\ Len(articles) >= 2
    /\ "get_article_content" \in calls
    /\ n_post = 0

\* the steps of main from one position to the next
MainTransitions ==
    {<<"idle", "load">>, <<"idle", "done">>, <<"done", "load">>, <<"done", "done">>,
     <<"load", "rate_check">>,
     <<"rate_check", "get_articles">>, <<"rate_check", "done">>,
     <<"get_articles", "select">>, <<"get_articles", "done">>,
     <<"select", "select">>, <<"select", "compose">>, <<"select", "done">>,
     <<"compose", "post">>,
     <<"post", "commit">>, <<"post", "retry">>, <<"post", "done">>,
     <<"retry", "retry">>, <<"retry", "post">>, <<"retry", "done">>,
     <<"commit", "done">>,
     <<"load", "done">>, <<"compose", "done">>}

\* C23: main moves only along the transitions of the state machine (and to
\* its end when the process is killed); a modified tweet is composed only
\* directly after a duplicate rejection; a submission, first or retry, that
\* post_to_twitter answers with another status or with "error" ends the run
\* as failed, with no further tweet composed or submitted and nothing
\* recorded
C23_OnlySpecifiedTransitions ==
    /\ [][\E step \in MainTransitions : pc = step[1] /\ pc' = step[2]]_vars
    /\ [][(pc' \in {"load", "compose", "commit"} \/ pc \in {"load", "compose"})
             => outcome' \in {"running", "killed"}]_vars
    /\ [][(pc # "retry" /\ pc' = "retry") => (pc = "post" /\ post_result' = "duplicate")]_vars
    /\ [](pc = "retry" => post_result = "duplicate")
    /\ [][(pc = "post" /\ post_result' \in {"rejected", "error"})
             => /\ pc' = "done"
                /\ outcome' = "failed"
                /\ tweet_text' = tweet_text
                /\ posted_data' = posted_data
                /\ disk' = disk]_vars
    /\ [](outcome = "failed" =>
             /\ pc = "done"
             /\ post_result \in {"rejected", "error"}
             /\ n_commit = 0
             /\ n_success = 0
             /\ posted_data = loaded)
    /\ [][(pc = "done" /\ pc' = "done" /\ outcome' # "abort")
             => (n_post' = n_post /\ tweet_text' = tweet_text /\ n_commit' = n_commit)]_vars

\* a retry was answered with "error" and the run ended as failed
C23_Witness ==
    /\ outcome = "failed"
    /\ attempt >= 1
    /\ n_dup >= 1
    /\ post_result = "error"

\* C25: every run that starts comes to its end with main returning, whatever
\* the external calls answer and whatever random.choice picks: no run ends
\* with create_unique_tweet not having returned
C25_EveryRunTerminates ==
    (pc = "load") ~> (pc = "done" /\ outcome # "crashed")

\* the failures post_to_twitter tries again after
Transient == {"429", "timeout", "exception"}

\* C24: one post_to_twitter call makes at most MAX_RETRIES requests; it
\* returns "error" exactly when MAX_RETRIES requests have failed; a transient
\* failure is followed by another request while fewer than MAX_RETRIES have
\* been made; a 201 or a duplicate rejection is the last request of the
\* call and is what the call returns.  What it returns is one of the
\* results main branches on.
C24_BoundedPublishRetries ==
    /\ [](/\ Len(p_log) <= (IF p_variant = "improved" THEN 3 ELSE 2)
          /\ \A i \in 1..(Len(p_log) - 1) : p_log[i] \notin {"201", "403 duplicate"}
          /\ p_pc = "returned" =>
                /\ p_result \in PostResults
                /\ p_log # << >>
                /\ p_result = "success" <=> p_log[Len(p_log)] = "201"
                /\ p_result = "duplicate" <=> p_log[Len(p_log)] = "403 duplicate"
                /\ p_result = "error" =>
                      Len(p_log) = (IF p_variant = "improved" THEN 3 ELSE 2)
                /\ p_log[Len(p_log)] \in Transient => p_result = "error")
    /\ [][(p_pc = "call" /\ p_log' # p_log /\ p_log'[Len(p_log')] \in Transient
           /\ Len(p_log') < (IF p_variant = "improved" THEN 3 ELSE 2))
             => p_pc' = "call"]_vars

\* the improved script's call gave up after a rate limit answer, a timeout
\* and another exception
C24_Witness ==
    /\ p_pc = "returned"
    /\ p_variant = "improved"
    /\ p_result = "error"
    /\ p_log = <<"429", "timeout", "exception">>

\* C22: a run that finds a required credential missing ends at once: it has
\* called no fetching function, no summarizer and no Publisher, has not
\* loaded the store, and the store file is as it was, a missing file still
\* missing
C22_AbortBeforeAnything ==
    outcome = "abort" =>
        /\ pc = "done"
        /\ calls = {}
        /\ n_post = 0
        /\ n_commit = 0
        /\ posted_data = EmptyRecord
        /\ loaded = EmptyRecord
        /\ selected_article = NoArticle
        /\ disk = disk0

\* a run aborted where there was no store file, and there is none
C22_Witness ==
    /\ outcome = "abort"
    /\ runs >= 1
    /\ disk0 = MissingFile
    /\ disk = MissingFile

\* C21: a candidate of a run without a Success is in neither the record nor
\* the file; the run after it loads the record that run loaded, passes the
\* rate gate, and its selection loop, given the same fetch result for the
\* candidate, classifies it as new and selects it
C21_StillEligible ==
    /\ []((selected_article # NoArticle /\ n_success = 0) =>
             /\ ~InList(selected_article.url, posted_data.posted)
             /\ IsRecord(disk) => ~InList(selected_article.url, disk.data.posted))
    /\ [][(prev.valid /\ pc = "load" /\ pc' = "rate_check") => loaded' = prev.loaded]_vars
    /\ [][(prev.valid /\ pc = "rate_check" /\ outcome' # "killed") => pc' = "get_articles"]_vars
    /\ [][(/\ prev.valid
           /\ pc = "select"
           /\ idx <= Len(articles)
           /\ articles[idx] = prev.selected
           /\ outcome' # "killed"
           /\ fetched' = prev.fetched)
             => (selected_article' = prev.selected /\ pc' = "compose")]_vars

\* the candidate of a run that had no Success is selected again by the next
\* run, after a candidate that both runs passed over
C21_Witness ==
    /\ prev.valid
    /\ pc = "compose"
    /\ idx > 1
    /\ selected_article = prev.selected
    /\ fetched = prev.fetched
    /\ loaded = prev.loaded
    /\ loaded.posted # << >>

\* ------------------------------------------------------------------------
\* Properties of the composers
\* ------------------------------------------------------------------------

ReservedTruncate(fn, s, max_length) ==
    IF fn = "bot" THEN truncate_bot(s, max_length) ELSE truncate_final(s, max_length)

ReservedLength(fn) == IF fn = "bot" THEN TWITTER_URL_LENGTH ELSE URL_BUFFER

\* C27: the first tweet of bot and final is the summary truncated to
\* MAX_TWEET_LENGTH less the reserved URL length less 2, two newlines and
\* the URL, and its summary part is the same for a URL of any other length
C27_ComposeFromReservedLength ==
    (c_pc = "composed" /\ c_fn \in {"bot", "final"}) =>
        /\ c_res = Tweet(ReservedTruncate(c_fn, c_summary,
                                          MAX_TWEET_LENGTH - ReservedLength(c_fn) - 2),
                         c_url)
        /\ \A n \in ComposeUrlLens :
              SummaryPart(ComposeBy(c_fn, c_summary, Rep("u", n))) = SummaryPart(c_res)

\* ------------------------------------------------------------------------
\* Properties of the summary fallback
\* ------------------------------------------------------------------------

\* the request to the summarizer failed, timed out or brought no text
NoSummary(answer) == answer[1] # "ok" \/ answer[2] = << >>

\* C33: when the summarizer fails, times out or returns nothing, with or
\* without a fetched body, the summary is the title, ending with a terminal
\* mark, and main comes to post_to_twitter with that summary above the URL
C33_TitleFallback ==
    /\ (u_pc \in {"compose", "post"} /\ NoSummary(u_answer)) =>
          /\ u_summary \in {u_title, Append(u_title, JpPeriod)}
          /\ EndsWithAny(u_summary, TerminalMarks)
    /\ (u_pc = "post" /\ NoSummary(u_answer)) => u_tweet = Tweet(u_summary, Url(1))

\* ------------------------------------------------------------------------
\* Properties of the selection policies
\* ------------------------------------------------------------------------

\* the articles of the page whose URL is not in posted_urls and whose title
\* is not in posted_titles
NonDuplicates ==
    {k_articles[i] : i \in {j \in 1..Len(k_articles) :
                                /\ ~InList(k_articles[j].url, k_record.posted)
                                /\ ~InList(k_articles[j].title, k_record.titles)}}

\* C32: in simple and openrouter the selected article is one of the
\* articles of the page whose URL is not in posted_urls and whose title is
\* not in posted_titles; when main comes to choose, each of them can be the
\* one random.choice returns; and main returns without a selection only
\* when there is none of them
C32_RandomAmongNew ==
    k_variant \in RandomPick =>
        /\ k_pc \in {"post", "retry_post", "update"} => k_selected \in NonDuplicates
        /\ k_pc = "select" =>
              /\ NonDuplicates # {}
              /\ \A article \in NonDuplicates : ENABLED (PickSelect /\ k_selected' = article)
        /\ (k_pc = "done" /\ k_outcome = "no_new") => NonDuplicates = {}

\* simple or openrouter selected the third link of a page of which two
\* links are new, after a run that recorded a post
C32_Witness ==
    /\ k_variant \in RandomPick
    /\ k_pc = "post"
    /\ k_record.posted # << >>
    /\ Cardinality(NonDuplicates) = 2
    /\ k_selected = k_articles[3]

\* last_posted_url of a record is unset or the last entry of its posted list
LastIsLatest(data) ==
    \/ data.last = None
    \/ /\ data.posted # << >>
       /\ data.last = data.posted[Len(data.posted)]

\* C37: in bot and hourly, run after run from the empty record,
\* last_posted_url is unset or the last entry of the posted list, in memory
\* and in the files; so the selected article never has the URL of
\* last_posted_url, and it is the loop over new_articles that selects, never
\* the fallback on new_articles[0]
C37_LastPostedUrl ==
    k_variant \notin RandomPick =>
        /\ LastIsLatest(k_record)
        /\ k_file.state = "ok" => LastIsLatest(k_file.data)
        /\ k_temp.state = "ok" => LastIsLatest(k_temp.data)
        /\ k_pc \in {"post", "update"} =>
              /\ k_selected.url # k_record.last
              /\ k_branch = "loop"

\* bot or hourly selected an article in a run that loaded a record with
\* last_posted_url set, from a page whose first link is the last posted one
C37_Witness ==
    /\ k_variant \notin RandomPick
    /\ k_pc = "post"
    /\ k_record.last # None
    /\ k_articles[1].url = k_record.last
    /\ k_selected.url # k_record.last

\* ------------------------------------------------------------------------
\* Properties of the store functions
\* ------------------------------------------------------------------------

\* the last ARTICLES_TO_TRACK entries of a sequence
LastK(seq) ==
    IF Len(seq) <= ARTICLES_TO_TRACK THEN seq
    ELSE SubSeq(seq, Len(seq) - ARTICLES_TO_TRACK + 1, Len(seq))

\* load_posted_articles returned the empty record for the file it found
StartedEmpty ==
    /\ s_variant # "hourly"
    /\ \/ s_file0.state # "ok"
       \/ "posted" \in s_file0.lacks
       \/ s_file0.data.posted = << >>

\* C11: starting from the empty record, the posted list holds the last
\* ARTICLES_TO_TRACK appended URLs in the order they were appended, the
\* content hashes likewise, and after ARTICLES_TO_TRACK + 1 posts the first
\* URL is gone
C11_FifoEviction ==
    (s_pc = "recorded" /\ StartedEmpty) =>
        /\ s_record.data.posted = LastK(s_urls)
        /\ s_record.data.content_hashes = LastK(s_hashes)
        /\ Len(s_urls) = ARTICLES_TO_TRACK + 1 =>
              /\ Len(s_record.data.posted) = ARTICLES_TO_TRACK
              /\ Len(s_record.data.content_hashes) = ARTICLES_TO_TRACK
              /\ ~InList(s_urls[1], s_record.data.posted)
              /\ s_record.data.posted[1] = s_urls[2]

\* one post more than the capacity has been recorded, starting from the
\* empty record
C11_Witness ==
    /\ s_pc = "recorded"
    /\ StartedEmpty
    /\ Len(s_urls) = ARTICLES_TO_TRACK + 1

\* C12: once update_posted_data has returned, the posted list and the
\* content hashes hold at most ARTICLES_TO_TRACK entries, whatever record
\* was loaded
C12_CapacityInvariant ==
    s_pc = "recorded" =>
        /\ Len(s_record.data.posted) <= ARTICLES_TO_TRACK
        /\ Len(s_record.data.content_hashes) <= ARTICLES_TO_TRACK

\* load_posted_articles has just returned or raised
AfterLoad == s_pc = "loaded" \/ (s_pc = "raised" /\ s_article = 0)

\* C14 (as stated): for a missing or unparseable store file load returns
\* the empty record and does not raise
C14_LoadReturnsEmpty ==
    (AfterLoad /\ s_file0.state # "ok") =>
        (s_pc = "loaded" /\ s_record = Dict(FreshRecord, {}))

\* C14: load_posted_articles never raises; for a missing or unparseable
\* store file it returns the empty record, except that the hourly script
\* returns the record of its temporary copy when there is no main file and
\* the copy parses
C14_LoadNeverRaises ==
    AfterLoad =>
        /\ s_pc = "loaded"
        /\ ~s_record.raised
        /\ s_file0.state # "ok" =>
              s_record = (IF s_variant = "hourly" /\ s_file0.state = "missing"
                             /\ s_temp.state = "ok"
                          THEN Dict(s_temp.data, s_temp.lacks)
                          ELSE Dict(FreshRecord, {}))

\* an unparseable store file was loaded as the empty record
C14_Witness ==
    /\ s_pc = "loaded"
    /\ s_file0 = BadFile
    /\ s_record = Dict(FreshRecord, {})

\* C15: when the persisted object lacks one key, load keeps the values of
\* the other keys and no later step of the run raises
C15_BackwardReadable ==
    (s_file0.state = "ok" /\ s_file0.lacks # {} /\ s_pc # "file") =>
        /\ s_pc # "raised"
        /\ s_pc = "loaded" =>
              \A f \in Fields(s_variant) \ s_file0.lacks : s_record.data[f] = s_file0.data[f]

\* C20: is_similar_to_posted returns True exactly when the URL is in the
\* posted list, or the hash of the fetched body (of the title when there is
\* no body) is in the content hashes, or, in the strict script, a keyword of
\* the title was last used less than 24 hours before now
C20_DuplicateExactlyWhen ==
    s_pc = "classified" =>
        LET article == SArticle(s_article)
            words == get_keywords(article.title)
        IN  s_dup <=>
              \/ InList(article.url, s_record.data.posted)
              \/ InList(get_content_hash(IF s_body # None THEN s_body ELSE article.title),
                        s_record.data.content_hashes)
              \/ /\ s_variant = "strict"
                 /\ \E p \in s_record.data.keywords :
                       InList(p[1], words) /\ s_now - p[2] < 24

\* the strict script classified as new a candidate with a keyword that was
\* last used exactly 24 hours before
C20_Witness ==
    /\ s_pc = "classified"
    /\ s_variant = "strict"
    /\ ~s_dup
    /\ \E p \in s_record.data.keywords :
          InList(p[1], get_keywords(SArticle(s_article).title)) /\ s_now - p[2] = 24

\* older is what is left of list after entries were dropped from its front
SuffixOf(older, list) ==
    \E k \in 0..Len(list) : older = SubSeq(list, k + 1, Len(list))

\* C31: update_posted_data makes the URL of the article the last entry of the
\* posted list and the hash it computed the last entry of the content
\* hashes, keeps the older entries that remain in their order, stores the
\* current time as last_post_time and, in the strict script, as the time of
\* every keyword of the title, and leaves the other keywords as they were
C31_RecordPublished ==
    [][(s_pc = "classified" /\ s_pc' = "recorded") =>
          LET article == SArticle(s_article)
              words == get_keywords(article.title)
              old == s_record.data
              new == s_record'.data
          IN  /\ new.posted # << >>
              /\ new.posted[Len(new.posted)] = article.url
              /\ SuffixOf(DropLast(new.posted), old.posted)
              /\ new.content_hashes # << >>
              /\ new.content_hashes[Len(new.content_hashes)] = s_hashes'[Len(s_hashes')]
              /\ SuffixOf(DropLast(new.content_hashes), old.content_hashes)
              /\ new.last_post_time = s_now
              /\ "last_post_time" \notin s_record'.lacks
              /\ s_variant = "strict" =>
                    /\ \A i \in 1..Len(words) :
                          \A t \in 0..(s_now + 1) :
                             <<words[i], t>> \in new.keywords <=> t = s_now
                    /\ \A p \in old.keywords \cup new.keywords :
                          ~InList(p[1], words) => (p \in old.keywords <=> p \in new.keywords)
              /\ s_variant # "strict" => new.keywords = old.keywords]_vars

\* the strict script recorded an article on a full record: the oldest URL
\* was dropped, one keyword of the title was in the map with an older time
\* and a keyword of another title stays in the map with its time
C31_Witness ==
    /\ s_pc = "recorded"
    /\ s_variant = "strict"
    /\ s_file0.state = "ok"
    /\ s_file0.lacks = {}
    /\ Len(s_file0.data.posted) = ARTICLES_TO_TRACK
    /\ Len(s_urls) = 2
    /\ \E p \in s_record.data.keywords :
          /\ ~InList(p[1], get_keywords(SArticle(s_article).title))
          /\ p[2] < s_now
    /\ \E p \in s_file0.data.keywords :
          InList(p[1], get_keywords(SArticle(s_article).title))

\* entry i of the posted list and entry i of the content hashes of a record
\* are a URL and the hash that update_posted_data appended in one call
Paired(data) ==
    LET offset == Len(s_urls) - Len(data.posted)
    IN  /\ Len(data.posted) = Len(data.content_hashes)
        /\ offset >= 0
        /\ \A i \in 1..Len(data.posted) :
              /\ data.posted[i] = s_urls[offset + i]
              /\ data.content_hashes[i] = s_hashes[offset + i]

\* C36: when the first run loaded the empty record, in every state of every
\* later run the posted list and the content hashes of the record in memory
\* and of the saved file have the same length, and the entries at one index
\* are a URL and the hash recorded together with it
C36_UrlsAndHashesPaired ==
    (StartedEmpty /\ s_pc # "file") =>
        /\ ~s_record.raised
        /\ Paired(s_record.data)
        /\ (s_pc = "recorded" /\ s_file.state = "ok") => Paired(s_file.data)

\* three articles were recorded from the empty record, the first was evicted
\* and the two that are left have different hashes
C36_Witness ==
    /\ StartedEmpty
    /\ s_pc = "recorded"
    /\ Len(s_urls) = ARTICLES_TO_TRACK + 1
    /\ s_record.data.content_hashes[1] # s_record.data.content_hashes[2]
    /\ s_record.data.content_hashes[1] = s_hashes[2]

\* C34: the content hash update_posted_data appends is the hash
\* is_similar_to_posted computed for the same article in the same run,
\* whatever each of the two get_article_content calls returned
C34_SameFingerprint ==
    s_pc = "recorded" =>
        LET article == SArticle(s_article)
            content_hash == get_content_hash(IF s_body # None THEN s_body ELSE article.title)
        IN  /\ s_hashes[Len(s_hashes)] = content_hash
            /\ s_record.data.content_hashes[Len(s_record.data.content_hashes)] = content_hash

\* ------------------------------------------------------------------------
\* Properties of the truncators
\* ------------------------------------------------------------------------

\* C8: for every text and budget N >= 0 the truncator's result is at most N long
C8_BudgetInvariant ==
    t_pc = "returned" => Len(t_res) <= t_max

\* C9: for every non-empty text the truncator's result ends with a terminal mark
C9_TerminationMark ==
    (t_pc = "returned" /\ t_text # << >>) => EndsWithAny(t_res, TerminalMarks)

\* C10: a text within budget that ends with any of the six marks is returned unchanged
C10_IdempotentTruncation ==
    (t_pc = "returned" /\ Len(t_text) <= t_max /\ EndsWithAny(t_text, TerminalMarks))
        => t_res = t_text

\* part is text[:k] for some k
PrefixOf(part, text) ==
    /\ Len(part) <= Len(text)
    /\ part = SubSeq(text, 1, Len(part))

\* C38: for every text and budget the result of ensure_complete_sentences
\* and of final's truncate_to_complete_sentence is a prefix of the text, or
\* a prefix of the text followed by one appended JpPeriod; no character of
\* the retained part, whitespace included, is dropped or replaced
C38_PrefixPlusMark ==
    (t_pc = "returned" /\ t_fn \in {"ensure_complete_sentences", "truncate_final"}) =>
        \/ PrefixOf(t_res, t_text)
        \/ /\ t_res # << >>
           /\ t_res[Len(t_res)] = JpPeriod
           /\ PrefixOf(DropLast(t_res), t_text)

\* C39: ensure_complete_sentences applied with the same budget to its own
\* result returns that result
C39_TruncateTwice ==
    (t_pc = "returned" /\ t_fn = "ensure_complete_sentences") =>
        ensure_complete_sentences(t_res, t_max) = t_res

\* the marks a truncator looks for
MarksOf(fn) == IF fn = "ensure_complete_sentences" THEN FixedMarks ELSE TerminalMarks

\* 0-based position of the right-most mark in text[:max_length], -1 for none
LastMark(fn, text, max_length) == RFindAny(Slice(text, max_length), MarksOf(fn))

\* C28: a text that is longer than the budget, or does not end with a mark,
\* and has a mark anywhere in its first max_length characters, the first
\* character included, is cut right after the right-most such mark
C28_CutAtLastMark ==
    (/\ t_pc = "returned"
     /\ Len(t_text) > t_max \/ ~EndsWithAny(t_text, MarksOf(t_fn))
     /\ LastMark(t_fn, t_text, t_max) >= 0) =>
        t_res = Slice(t_text, LastMark(t_fn, t_text, t_max) + 1)

\* C29: for every text and every budget N >= 0 the truncator returns a text
\* of at most N + 1 characters
C29_BudgetPlusOne ==
    t_pc = "returned" => Len(t_res) <= t_max + 1

\* a text without a mark was cut to the budget and closed with a mark
C29_Witness ==
    /\ t_pc = "returned"
    /\ t_max >= 1
    /\ Len(t_text) > t_max
    /\ LastMark(t_fn, t_text, t_max) = -1
    /\ Len(t_res) = t_max + 1
    /\ EndsWithAny(t_res, TerminalMarks)

\* C30 (as stated): with no mark in the first max_length characters,
\* ensure_complete_sentences cuts after the right-most comma when it lies
\* past 70% of the budget; else after the last complete word of the prefix
\* whenever the prefix holds one; else at max_length; and appends a mark
C30_FallbackOrder ==
    (/\ t_pc = "returned"
     /\ t_fn = "ensure_complete_sentences"
     /\ Len(t_text) > t_max
     /\ LastMark(t_fn, t_text, t_max) = -1) =>
        LET truncated == Slice(t_text, t_max)
            last_comma == RFindAny(truncated, {JpComma})
            complete_text == JoinSpace(DropLast(Split(truncated)))
        IN  t_res = IF 10 * last_comma > 7 * t_max
                    THEN Append(Slice(t_text, last_comma + 1), JpPeriod)
                    ELSE IF complete_text # << >> THEN Append(complete_text, JpPeriod)
                    ELSE Append(truncated, JpPeriod)

\* C30: with no mark in the first max_length characters,
\* ensure_complete_sentences cuts after the right-most comma when it lies
\* past 70% of the budget; else it returns the words of the prefix but the
\* last, joined by single spaces, when they are longer than 70% of the
\* budget; else it cuts at max_length; and it appends a full-width period
C30_FallbackOrderSubstantial ==
    (/\ t_pc = "returned"
     /\ t_fn = "ensure_complete_sentences"
     /\ Len(t_text) > t_max
     /\ LastMark(t_fn, t_text, t_max) = -1) =>
        LET truncated == Slice(t_text, t_max)
            last_comma == RFindAny(truncated, {JpComma})
            complete_text == JoinSpace(DropLast(Split(truncated)))
        IN  /\ EndsWithAny(t_res, {JpPeriod})
            /\ DropLast(t_res) =
                  IF 10 * last_comma > 7 * t_max THEN Slice(t_text, last_comma + 1)
                  ELSE IF 10 * Len(complete_text) > 7 * t_max THEN complete_text
                  ELSE truncated

\* the comma of a text lay before 70% of the budget and the text was cut
\* after its last complete word
C30_Witness ==
    /\ t_pc = "returned"
    /\ t_fn = "ensure_complete_sentences"
    /\ t_max = PhraseBudget
    /\ Len(t_text) > t_max
    /\ RFindAny(Slice(t_text, t_max), {JpComma}) > 0
    /\ t_res = <<"a", JpComma, "a", "a", Space, "b", "b", "b", JpPeriod>>

====
